---- MODULE Spec2Model ----
(***************************************************************************)
(* Model of niri's nested Wayland backend (src/backend/wayland*.rs):       *)
(* the graphics backend's frame-callback / bind / submit cycle, the seat   *)
(* and device tracker, the pointer-lock coordinator and the backend event  *)
(* channel consumed by the compositor's main loop.                         *)
(***************************************************************************)
EXTENDS Integers, Sequences, FiniteSets, TLC

VARIABLES
    \* WaylandGraphicsBackend (graphics.rs:54-67)
    frame_callback_state,   \* "None" | "Requested" | "Received"
    window_size,            \* <<w, h>>
    bind_size,              \* None or <<w, h>>
    damage_tracking,        \* display.supports_damage()
    surface_age,            \* EGL back buffer age of the native surface
    \* host compositor side of the frame-callback protocol
    hostCallbacks,          \* wl_callback objects requested and not yet answered
    answered,               \* a callback was delivered and no request was made since
    \* WaylandBackend (wayland.rs:49-73) and the main loop
    events,                 \* calloop channel: emitted and not yet consumed
    redraw_state,           \* niri output_state.redraw_state: "Idle" | "Queued"
    alive,                  \* FALSE once a handler panicked
    render_result,          \* last RenderResult returned by render()
    output_mode,            \* output.current_mode().size
    ipc_output,             \* the single entry of ipc_outputs: mode and logical size
    \* seat tracker (seat.rs) and pointer-lock coordinator
    seats,                  \* SeatState.seats: sequence of registry names
    devices,                \* SeatData.devices per seat name
    kbdFocus,               \* host side: the seat's keyboard object has the focus
    kbdEntered,             \* the seat handled an enter and no leave since
    locked_pointers,        \* WaylandBackend.locked_pointers
    prev_cursor_location,   \* WaylandBackend.prev_cursor_location
    transform,              \* output.current_transform()
    relative_pointer_bound, \* host offers zwp_relative_pointer_manager_v1
    pointer_constraints_bound, \* host offers zwp_pointer_constraints_v1
    seat_version,           \* per seat name: version of the host's wl_seat global
    axis_frame,             \* per seat name: PointerData.axis_frame of its pointer
    \* observation of the last handler that ran
    op,                     \* its name
    out,                    \* calls and host requests it made, in order
    emitted,                \* events it put on the channel, in order
    hostLocks,              \* host side: its locks, each with the last hint it got
    hostAxis,               \* host side: per seat, the scroll batch sent so far
    backlog,                \* events the event loop lets wait while it runs a handler
    counter,                \* an IdCounter and the threads calling next() on it
    announced,              \* main loop side: devices received as added, not yet as removed
    capture                 \* ImageCopyCaptureState, its client and its frame resources

gfxVars == <<frame_callback_state, window_size, bind_size, damage_tracking,
             surface_age, hostCallbacks, answered>>
loopVars == <<events, redraw_state, alive, render_result, output_mode, ipc_output>>
seatVars == <<seats, devices, kbdFocus, kbdEntered, locked_pointers, prev_cursor_location,
              transform, relative_pointer_bound, pointer_constraints_bound,
              seat_version, axis_frame>>
obsVars == <<op, out, emitted, hostLocks, hostAxis>>
vars == <<gfxVars, loopVars, seatVars, obsVars, backlog, counter,
          announced, capture>>

----------------------------------------------------------------------------
\* Bounds of the model.
MaxBacklog == 0       \* events still waiting on the channel when a handler runs
MaxCallbacks == 2     \* frame callbacks outstanding at the host
MaxAge == 2           \* largest buffer age the driver reports
MaxDim == 4           \* largest window dimension the host configures
MaxScroll == 2        \* largest scroll amount, all axes together, of one batch
MaxDelta == 2         \* largest component of a relative motion delta
MaxDirEntries == 2    \* entries of /dev/dri
MaxCalls == 2         \* calls of IdCounter::next() by one thread
MaxFrames == 2        \* frame objects a capture client creates
MaxCaptures == 2      \* capture requests a client sends on one frame
MaxIds == 3           \* host objects of one kind referenced at the same time

None == <<>>
Some(x) == <<x>>

Dims == 2..MaxDim
Sizes == {<<w, h>> : w \in 1..MaxDim, h \in 1..MaxDim}

\* Number of entries of sequence s equal to e.
RECURSIVE Count(_, _)
Count(s, e) ==
    IF s = <<>> THEN 0
    ELSE (IF Head(s) = e THEN 1 ELSE 0) + Count(Tail(s), e)

RECURSIVE SeqFilterOut(_, _)
SeqFilterOut(s, e) ==
    IF s = <<>> THEN <<>>
    ELSE IF Head(s) = e THEN SeqFilterOut(Tail(s), e)
         ELSE <<Head(s)>> \o SeqFilterOut(Tail(s), e)

Range(s) == {s[i] : i \in 1..Len(s)}

----------------------------------------------------------------------------
\* Entries of the observation log `out`.
CallRequestFrameCallback == <<"call", "request_frame_callback">>
HostSurfaceFrame == <<"host", "wl_surface.frame">>
EglResize(sz) == <<"egl", "resize", sz>>
EglSwap(damage) == <<"egl", "swap_buffers", damage>>
RendererBind == <<"call", "renderer.bind">>

\* Events of the backend channel.
EvFrame == <<"Frame">>
EvClose == <<"Close">>
EvResize == <<"Resize">>
Send(ev) == <<"send", ev>>
\* The arguments a handler was called with, first entry of its log.
Arg(a) == <<"arg", a>>

\* The events sent by a handler, in order, from its log.
RECURSIVE Sends(_)
Sends(o) ==
    IF o = <<>> THEN <<>>
    ELSE IF Head(o)[1] = "send" THEN <<Head(o)[2]>> \o Sends(Tail(o))
         ELSE Sends(Tail(o))

----------------------------------------------------------------------------
\* Graphics backend.

\* A faulty variant that issues a host request on every call.
request_frame_callback_always(fcs) ==
    [fcs |-> "Requested",
     out |-> <<CallRequestFrameCallback, HostSurfaceFrame>>]

\* A faulty variant that sends the request without recording it.
request_frame_callback_unrecorded(fcs) ==
    IF fcs \in {"None", "Received"}
    THEN [fcs |-> fcs, out |-> <<CallRequestFrameCallback, HostSurfaceFrame>>]
    ELSE [fcs |-> fcs, out |-> <<CallRequestFrameCallback>>]

\* graphics.rs:151-160
request_frame_callback(fcs) ==
    IF fcs \in {"None", "Received"}
    THEN [fcs |-> "Requested",
          out |-> <<CallRequestFrameCallback, HostSurfaceFrame>>]
    ELSE [fcs |-> fcs, out |-> <<CallRequestFrameCallback>>]

\* A faulty variant that resizes the native surface on every call.
bind_always_resize(ws, bs) ==
    [bind_size |-> Some(ws),
     resized |-> TRUE,
     out |-> <<EglResize(ws), RendererBind>>]

\* A faulty variant that resizes after the rendering context was acquired.
bind_resize_after_acquire(ws, bs) ==
    [bind_size |-> Some(ws),
     resized |-> Some(ws) # bs,
     out |-> <<RendererBind>> \o (IF Some(ws) # bs THEN <<EglResize(ws)>> ELSE <<>>)]

\* graphics.rs:164-178
bind(ws, bs) ==
    [bind_size |-> Some(ws),
     resized |-> Some(ws) # bs,
     out |-> (IF Some(ws) # bs THEN <<EglResize(ws)>> ELSE <<>>) \o <<RendererBind>>]

\* A faulty variant that reports the driver's age whatever the support.
buffer_age_of_driver(dt, age) == age

\* graphics.rs:181-187
buffer_age(dt, age) == IF dt THEN age ELSE 0

\* A faulty variant that forgets the height of the rectangle.
FlipRect_origin_only(rect, bs) ==
    [x |-> rect.x, y |-> bs[2] - rect.y, w |-> rect.w, h |-> rect.h]

\* graphics.rs:203-206
FlipRect(rect, bs) ==
    [x |-> rect.x, y |-> bs[2] - rect.y - rect.h, w |-> rect.w, h |-> rect.h]

\* graphics.rs:195-212; damage is None or Some(sequence of rectangles)
submit_damage(damage, dt, bs) ==
    IF damage # None /\ dt /\ damage[1] # <<>>
    THEN Some([i \in 1..Len(damage[1]) |-> FlipRect(damage[1][i], bs[1])])
    ELSE None

\* The host-side count of callbacks after the requests listed in o.
HostAfter(o) == hostCallbacks + Count(o, HostSurfaceFrame)

\* handlers.rs:79-80: the body of CompositorHandler::frame is empty
frame(fcs) == [fcs |-> fcs, out |-> <<>>]

\* handlers.rs:120-133; 0 stands for a dimension the host leaves unspecified
\* A faulty variant that takes an unspecified dimension as zero.
configure_size_unset_as_zero(nw, nh, ws) == <<nw, nh>>

\* handlers.rs:120-133: a dimension the host leaves unspecified (0 here) is the
\* current one
configure_size(nw, nh, ws) ==
    <<IF nw = 0 THEN ws[1] ELSE nw, IF nh = 0 THEN ws[2] ELSE nh>>

\* wayland.rs:132-133: clamp(0, u16::MAX) as u16
ClampU16(v) == IF v < 0 THEN 0 ELSE IF v > 65535 THEN 65535 ELSE v

Rects ==
    {[x |-> 0, y |-> 0, w |-> 1, h |-> 1], [x |-> 0, y |-> 1, w |-> 2, h |-> 1]}
DamageInputs == {None} \cup {Some(<<r>>) : r \in Rects} \cup {Some(<<>>)}
FrameDamageInputs == {None, Some(<<[x |-> 0, y |-> 0, w |-> 1, h |-> 1]>>)}
FullDamage(sz) == Some(<<[x |-> 0, y |-> 0, w |-> sz[1], h |-> sz[2]]>>)

----------------------------------------------------------------------------
\* The host's locks after the requests of log o reached it: a lock request
\* creates a lock without hint, a hint is stored in its lock, a destroy
\* request removes the lock.
RECURSIVE HostLocksAfter(_, _)
HostLocksAfter(h, o) ==
    IF o = <<>> THEN h
    ELSE LET e == Head(o)
             h2 == IF e[1] # "host" THEN h
                   ELSE IF e[2] = "lock_pointer" THEN Append(h, <<e[3], None>>)
                   ELSE IF e[2] = "zwp_locked_pointer_v1.destroy"
                        THEN SelectSeq(h, LAMBDA x : x[1] # e[3])
                   ELSE IF e[2] = "set_cursor_position_hint"
                        THEN [i \in 1..Len(h) |->
                                IF h[i][1] = e[3] THEN <<e[3], Some(e[4])>> ELSE h[i]]
                   ELSE h
         IN HostLocksAfter(h2, Tail(o))

\* The scroll batch the host has sent on a seat's wl_pointer and not yet
\* closed: the sum of the wl_pointer.axis values per axis and the time of the
\* first sub-event that carried one.  wl_pointer.frame closes the batch; a
\* pointer older than version 5 has no frames, every event is a batch of its
\* own; a new wl_pointer object starts with an empty batch.
HostBatchEmpty == [vertical |-> 0, horizontal |-> 0, first |-> <<>>]

HostBatchAdd(b, ev) ==
    LET b1 == IF ev[1] \in {"Axis", "AxisStop"} /\ b.first = <<>>
              THEN [b EXCEPT !.first = <<ev[2]>>] ELSE b
    IN IF ev[1] = "Frame" THEN HostBatchEmpty
       ELSE IF ev[1] # "Axis" THEN b1
       ELSE IF ev[3] = "Vertical" THEN [b1 EXCEPT !.vertical = @ + ev[4]]
       ELSE [b1 EXCEPT !.horizontal = @ + ev[4]]

HostAxisAfter(h, name, o, versions) ==
    IF name = "pointer_event"
    THEN LET n == o[1][2][1] IN
         [h EXCEPT ![n] = IF versions[n] < 5 THEN HostBatchEmpty
                          ELSE HostBatchAdd(@, o[1][2][2])]
    ELSE IF name \in {"capabilities", "remove_global"}
    THEN LET n == o[1][2][1] IN
         IF \E i \in 1..Len(o) :
               /\ o[i][1] = "host"
               /\ o[i][2] \in {"wl_seat.get_pointer", "wl_pointer.release"}
         THEN [h EXCEPT ![n] = HostBatchEmpty]
         ELSE h
    ELSE h

\* A faulty variant whose channel hands out the newest event first.
Observe_newest_first(name, o) ==
    /\ op' = name
    /\ out' = o
    /\ emitted' = Sends(o)
    /\ hostLocks' = HostLocksAfter(hostLocks, o)
    /\ hostAxis' = HostAxisAfter(hostAxis, name, o, seat_version)
    /\ Len(events) <= backlog
    /\ backlog' = backlog /\ announced' = announced /\ counter' = counter /\ capture' = capture
    /\ events' = Sends(o) \o events

\* Common shape of a handler step: o is the log of what it did, in order;
\* the events it sent go to the channel.
Observe(name, o) ==
    /\ op' = name
    /\ out' = o
    /\ emitted' = Sends(o)
    /\ hostLocks' = HostLocksAfter(hostLocks, o)
    /\ hostAxis' = HostAxisAfter(hostAxis, name, o, seat_version)
    /\ Len(events) <= backlog
    /\ backlog' = backlog /\ announced' = announced /\ counter' = counter /\ capture' = capture
    /\ events' = events \o Sends(o)

\* graphics.rs:151-160, called directly
RequestFrameCallback ==
    /\ alive
    /\ LET r == request_frame_callback(frame_callback_state) IN
       /\ HostAfter(r.out) <= MaxCallbacks
       /\ frame_callback_state' = r.fcs
       /\ hostCallbacks' = HostAfter(r.out)
       /\ answered' = FALSE
       /\ Observe("request_frame_callback", r.out)
    /\ UNCHANGED <<window_size, bind_size, damage_tracking, surface_age>>
    /\ UNCHANGED <<redraw_state, alive, render_result, output_mode, ipc_output>>
    /\ UNCHANGED seatVars

\* graphics.rs:164-178, called directly
Bind ==
    /\ alive
    /\ LET b == bind(window_size, bind_size) IN
       /\ bind_size' = b.bind_size
       /\ surface_age' = IF b.resized THEN 0 ELSE surface_age
       /\ Observe("bind", b.out)
    /\ UNCHANGED <<frame_callback_state, window_size, damage_tracking,
                   hostCallbacks, answered>>
    /\ UNCHANGED <<redraw_state, alive, render_result, output_mode, ipc_output>>
    /\ UNCHANGED seatVars

\* graphics.rs:181-187, called directly
BufferAge ==
    /\ alive
    /\ Observe("buffer_age", <<<<"ret", buffer_age(damage_tracking, surface_age)>>>>)
    /\ UNCHANGED <<gfxVars, redraw_state, alive, render_result, output_mode, ipc_output>>
    /\ UNCHANGED seatVars

\* graphics.rs:191-218, called directly; swapOk is the outcome of swap_buffers
Submit(damage, swapOk, newAge) ==
    /\ alive
    /\ IF damage # None /\ damage_tracking /\ damage[1] # <<>> /\ bind_size = None
       THEN \* graphics.rs:199: expect() panics
            /\ alive' = FALSE
            /\ Observe("submit", <<Arg(<<damage>>), <<"panic">>>>)
            /\ UNCHANGED <<gfxVars, redraw_state, render_result, output_mode, ipc_output>>
       ELSE LET d == submit_damage(damage, damage_tracking, bind_size)
                r == request_frame_callback(frame_callback_state)
            IN /\ HostAfter(r.out) <= MaxCallbacks
               /\ frame_callback_state' = r.fcs
               /\ hostCallbacks' = HostAfter(r.out)
               /\ answered' = FALSE
               /\ surface_age' = IF swapOk THEN newAge ELSE surface_age
               /\ Observe("submit",
                          <<Arg(<<damage>>)>> \o r.out \o <<EglSwap(d), <<"ret", IF swapOk THEN "Ok" ELSE "Err">>>>)
               /\ UNCHANGED <<window_size, bind_size, damage_tracking>>
               /\ UNCHANGED <<redraw_state, alive, render_result, output_mode, ipc_output>>
    /\ UNCHANGED seatVars

\* wayland.rs:337-413; animations is output_state.unfinished_animations_remain,
\* tracked is what the damage tracker finds when the buffer contents are known
\* wayland.rs:357-360: damage_tracker.render_output(renderer, age, ..) and the
\* damage it reports
CallRenderOutput(age, damage) == <<"call", "render_output", age, damage>>

\* A faulty variant that reports a submitted frame whatever the damage.
render_rv_always_submitted(damage) == "Submitted"

\* wayland.rs:364-393: the RenderResult for the damage reported
render_rv(damage) == IF damage # None THEN "Submitted" ELSE "NoDamage"

Render(animations, tracked, swapOk, newAge) ==
    /\ alive
    /\ redraw_state = "Queued"
    /\ LET b == bind(window_size, bind_size)
           age == buffer_age(damage_tracking, IF b.resized THEN 0 ELSE surface_age)
           damage == IF age = 0 THEN FullDamage(window_size) ELSE tracked
           d == submit_damage(damage, damage_tracking, b.bind_size)
           r1 == IF damage # None
                 THEN request_frame_callback(frame_callback_state)
                 ELSE [fcs |-> frame_callback_state, out |-> <<>>]
           sub == IF damage # None
                  THEN r1.out \o <<EglSwap(d), <<"ret", IF swapOk THEN "Ok" ELSE "Err">>>>
                  ELSE <<>>
           r2 == IF animations
                 THEN request_frame_callback(r1.fcs)
                 ELSE [fcs |-> r1.fcs, out |-> <<>>]
       IN /\ bind_size' = b.bind_size
          /\ IF damage # None /\ ~swapOk
             THEN \* wayland.rs:378-380: unwrap() of the failed submit panics
                  /\ HostAfter(r1.out) <= MaxCallbacks
                  /\ alive' = FALSE
                  /\ frame_callback_state' = r1.fcs
                  /\ hostCallbacks' = HostAfter(r1.out)
                  /\ surface_age' = IF b.resized THEN 0 ELSE surface_age
                  /\ Observe("render", b.out \o <<CallRenderOutput(age, damage)>> \o sub
                                         \o <<<<"panic">>>>)
                  /\ UNCHANGED <<redraw_state, render_result>>
             ELSE /\ HostAfter(r1.out \o r2.out) <= MaxCallbacks
                  /\ frame_callback_state' = r2.fcs
                  /\ hostCallbacks' = HostAfter(r1.out \o r2.out)
                  /\ surface_age' = IF damage # None THEN newAge
                                    ELSE IF b.resized THEN 0 ELSE surface_age
                  /\ redraw_state' = "Idle"
                  /\ render_result' = render_rv(damage)
                  /\ alive' = alive
                  /\ Observe("render", b.out \o <<CallRenderOutput(age, damage)>> \o sub
                                         \o r2.out)
          /\ answered' = IF Count(out', CallRequestFrameCallback) > 0
                         THEN FALSE ELSE answered
    /\ UNCHANGED <<window_size, damage_tracking, output_mode, ipc_output>>
    /\ UNCHANGED seatVars

\* The host answers an outstanding wl_callback: CompositorHandler::frame runs.
HostFrameDone ==
    /\ alive
    /\ hostCallbacks > 0
    /\ hostCallbacks' = hostCallbacks - 1
    /\ answered' = TRUE
    /\ LET f == frame(frame_callback_state) IN
       /\ frame_callback_state' = f.fcs
       /\ Observe("frame", f.out)
    /\ UNCHANGED <<window_size, bind_size, damage_tracking, surface_age>>
    /\ UNCHANGED <<redraw_state, alive, render_result, output_mode, ipc_output>>
    /\ UNCHANGED seatVars

\* handlers.rs:136, graphics.rs:90-92
CallSetWindowSize(size) == <<"call", "set_window_size", size>>

\* handlers.rs:112-141
Configure(nw, nh) ==
    /\ alive
    /\ LET new_size == configure_size(nw, nh, window_size) IN
       IF new_size # window_size
       THEN /\ window_size' = new_size
            /\ Observe("configure", <<Arg(<<nw, nh>>), CallSetWindowSize(new_size),
                                      Send(EvResize)>>)
       ELSE /\ window_size' = window_size
            /\ Observe("configure", <<Arg(<<nw, nh>>)>>)
    /\ UNCHANGED <<frame_callback_state, bind_size, damage_tracking, surface_age,
                   hostCallbacks, answered>>
    /\ UNCHANGED <<redraw_state, alive, render_result, output_mode, ipc_output>>
    /\ UNCHANGED seatVars

\* handlers.rs:103-110
RequestClose ==
    /\ alive
    /\ Observe("request_close", <<Send(EvClose)>>)
    /\ UNCHANGED gfxVars
    /\ UNCHANGED <<redraw_state, alive, render_result, output_mode, ipc_output>>
    /\ UNCHANGED seatVars

\* niri.queue_redraw(): an idle output becomes queued
queue_redraw(rs) == IF rs = "Idle" THEN "Queued" ELSE rs

\* The devices the main loop knows of once it has received the event.
AnnouncedAfter(known, event) ==
    IF event[1] = "Input" /\ event[2] = "DeviceAdded" THEN known \cup {event[3]}
    ELSE IF event[1] = "Input" /\ event[2] = "DeviceRemoved" THEN known \ {event[3]}
    ELSE known

\* wayland.rs:104-145: the main loop takes the next event off the channel;
\* redrawAfterInput is whether process_input_event queued a redraw
ConsumeEvent(redrawAfterInput) ==
    /\ alive
    /\ events # <<>>
    /\ LET event == Head(events) IN
       /\ events' = Tail(events)
       /\ op' = "consume"
       /\ out' = <<event>>
       /\ emitted' = <<>>
       /\ hostLocks' = hostLocks /\ hostAxis' = hostAxis /\ backlog' = backlog /\ counter' = counter /\ capture' = capture
       /\ announced' = AnnouncedAfter(announced, event)
       /\ CASE event = EvFrame ->
                 /\ redraw_state' = queue_redraw(redraw_state)
                 /\ UNCHANGED <<alive, output_mode, ipc_output>>
            [] event = EvClose ->
                 /\ alive' = FALSE
                 /\ UNCHANGED <<redraw_state, output_mode, ipc_output>>
            [] event = EvResize ->
                 /\ output_mode' = window_size
                 /\ ipc_output' = [mode |-> <<ClampU16(window_size[1]), ClampU16(window_size[2])>>,
                                   logical |-> window_size]
                 /\ redraw_state' = queue_redraw(redraw_state)
                 /\ alive' = alive
            [] OTHER ->
                 /\ redraw_state' = IF redrawAfterInput THEN queue_redraw(redraw_state)
                                    ELSE redraw_state
                 /\ UNCHANGED <<alive, output_mode, ipc_output>>
    /\ UNCHANGED <<gfxVars, render_result, seatVars>>

\* The compositor core queues a redraw of the output for its own reasons.
QueueRedraw ==
    /\ alive
    /\ redraw_state = "Idle"
    /\ redraw_state' = queue_redraw(redraw_state)
    /\ op' = "queue_redraw" /\ out' = <<>> /\ emitted' = <<>> /\ hostLocks' = hostLocks /\ hostAxis' = hostAxis /\ backlog' = backlog /\ announced' = announced /\ counter' = counter /\ capture' = capture
    /\ UNCHANGED <<gfxVars, events, alive, render_result, output_mode, ipc_output, seatVars>>

----------------------------------------------------------------------------
\* Seat and device tracker (seat.rs).

SeatNames == {1, 2}   \* registry names of wl_seat globals

\* seat.rs:94-101, SeatDevices::default()
DefaultDevices ==
    [keyboard |-> None, pointer |-> None, relative_pointer |-> None,
     locked_pointer |-> None, touch |-> None]

\* seat.rs:173: the highest wl_seat version the backend binds
SEAT_VERSION == 7

\* A u32 of the model is a pair of 16-bit limbs <<high, low>>, a u64 four
\* limbs, most significant first.
Limb == 65536
U32Zero == <<0, 0>>

\* input.rs:371-393, AxisFrame::default()
AxisScrollDefault == [absolute |-> 0, v120 |-> 0, relative_direction |-> "Identical"]
AxisFrameDefault ==
    [time |-> U32Zero, horizontal |-> AxisScrollDefault, vertical |-> AxisScrollDefault,
     source |-> "Wheel"]

\* input.rs:18-22, WaylandInputDevice
KeyboardDevice(id) == <<"Keyboard", id>>
PointerDevice(id) == <<"Pointer", id>>
TouchDevice(id) == <<"Touch", id>>

EvDeviceAdded(dev) == <<"Input", "DeviceAdded", dev>>
EvDeviceRemoved(dev) == <<"Input", "DeviceRemoved", dev>>
EvKeyboardEnter(dev) == <<"Input", "KeyboardEnter", dev>>
EvKeyboardLeave(dev) == <<"Input", "KeyboardLeave", dev>>

\* Requests to the host, as entries of the log.
HostGetKeyboard(id) == <<"host", "wl_seat.get_keyboard", id>>
HostGetPointer(id) == <<"host", "wl_seat.get_pointer", id>>
HostGetTouch(id) == <<"host", "wl_seat.get_touch", id>>
HostReleaseKeyboard(id) == <<"host", "wl_keyboard.release", id>>
HostReleasePointer(id) == <<"host", "wl_pointer.release", id>>
HostReleaseTouch(id) == <<"host", "wl_touch.release", id>>
HostGetRelativePointer(rel) == <<"host", "get_relative_pointer", rel>>
HostDestroyRelativePointer(rel) == <<"host", "zwp_relative_pointer_v1.destroy", rel>>
HostLockPointer(lock) == <<"host", "lock_pointer", lock>>
HostDestroyLock(lock) == <<"host", "zwp_locked_pointer_v1.destroy", lock>>
HostCursorHint(lock, loc) == <<"host", "set_cursor_position_hint", lock, loc>>

\* Host objects are told apart by identity: a new object gets the smallest
\* number no live reference of its kind carries (0: none is left).
Fresh(refs) ==
    IF \E i \in 1..MaxIds : i \notin refs
    THEN CHOOSE i \in 1..MaxIds : i \notin refs /\ \A j \in 1..(i - 1) : j \in refs
    ELSE 0

QueuedDevices(class) ==
    {events[i][3][2] : i \in {j \in 1..Len(events) :
                                 events[j][1] = "Input" /\ events[j][3][1] = class}}
KeyboardRefs ==
    {devices[n].keyboard[1] : n \in {m \in SeatNames : devices[m].keyboard # None}}
      \cup QueuedDevices("Keyboard")
TouchRefs ==
    {devices[n].touch[1] : n \in {m \in SeatNames : devices[m].touch # None}}
      \cup QueuedDevices("Touch")
PointerRefs ==
    {devices[n].pointer[1] : n \in {m \in SeatNames : devices[m].pointer # None}}
      \cup {devices[n].relative_pointer[1][2] :
              n \in {m \in SeatNames : devices[m].relative_pointer # None}}
      \cup {devices[n].locked_pointer[1][2] :
              n \in {m \in SeatNames : devices[m].locked_pointer # None}}
      \cup {locked_pointers[i][2] : i \in 1..Len(locked_pointers)}
      \cup QueuedDevices("Pointer")
RelativePointerRefs ==
    {devices[n].relative_pointer[1][1] :
       n \in {m \in SeatNames : devices[m].relative_pointer # None}}
LockRefs ==
    {devices[n].locked_pointer[1][1] :
       n \in {m \in SeatNames : devices[m].locked_pointer # None}}
      \cup {locked_pointers[i][1] : i \in 1..Len(locked_pointers)}

\* A faulty variant that announces the keyboard again when it is already held.
caps_keyboard_reannounce(d, has, fresh) ==
    IF has
    THEN IF d.keyboard = None
         THEN [d |-> [d EXCEPT !.keyboard = Some(fresh)],
               out |-> <<HostGetKeyboard(fresh),
                         Send(EvDeviceAdded(KeyboardDevice(fresh)))>>]
         ELSE [d |-> d,
               out |-> <<Send(EvDeviceAdded(KeyboardDevice(d.keyboard[1])))>>]
    ELSE IF d.keyboard # None
         THEN [d |-> [d EXCEPT !.keyboard = None],
               out |-> <<HostReleaseKeyboard(d.keyboard[1]),
                         Send(EvDeviceRemoved(KeyboardDevice(d.keyboard[1])))>>]
         ELSE [d |-> d, out |-> <<>>]

\* seat.rs:232-245: the keyboard branch of the Capabilities handler
caps_keyboard(d, has, fresh) ==
    IF has
    THEN IF d.keyboard = None
         THEN [d |-> [d EXCEPT !.keyboard = Some(fresh)],
               out |-> <<HostGetKeyboard(fresh),
                         Send(EvDeviceAdded(KeyboardDevice(fresh)))>>]
         ELSE [d |-> d, out |-> <<>>]
    ELSE IF d.keyboard # None
         THEN [d |-> [d EXCEPT !.keyboard = None],
               out |-> <<HostReleaseKeyboard(d.keyboard[1]),
                         Send(EvDeviceRemoved(KeyboardDevice(d.keyboard[1])))>>]
         ELSE [d |-> d, out |-> <<>>]

\* seat.rs:247-272: the pointer branch of the Capabilities handler; the
\* relative pointer is obtained only when the host offers its manager
caps_pointer(d, has, freshP, freshR, relBound) ==
    IF has
    THEN LET got == d.pointer = None
             pointer == IF got THEN freshP ELSE d.pointer[1]
             o1 == IF got
                   THEN <<HostGetPointer(freshP),
                          Send(EvDeviceAdded(PointerDevice(freshP)))>>
                   ELSE <<>>
             newRel == d.relative_pointer = None /\ relBound
         IN [d |-> [d EXCEPT !.pointer = Some(pointer),
                             !.relative_pointer =
                                 IF newRel THEN Some(<<freshR, pointer>>) ELSE @],
             out |-> o1 \o (IF newRel
                            THEN <<HostGetRelativePointer(<<freshR, pointer>>)>>
                            ELSE <<>>)]
    ELSE LET o1 == IF d.relative_pointer # None
                   THEN <<HostDestroyRelativePointer(d.relative_pointer[1])>>
                   ELSE <<>>
             o2 == IF d.pointer # None
                   THEN <<HostReleasePointer(d.pointer[1]),
                          Send(EvDeviceRemoved(PointerDevice(d.pointer[1])))>>
                   ELSE <<>>
         IN [d |-> [d EXCEPT !.relative_pointer = None, !.pointer = None],
             out |-> o1 \o o2]

\* A faulty variant that takes the touch device without announcing it.
caps_touch_unannounced(d, has, fresh) ==
    IF has
    THEN IF d.touch = None
         THEN [d |-> [d EXCEPT !.touch = Some(fresh)],
               out |-> <<HostGetTouch(fresh)>>]
         ELSE [d |-> d, out |-> <<>>]
    ELSE IF d.touch # None
         THEN [d |-> [d EXCEPT !.touch = None],
               out |-> <<HostReleaseTouch(d.touch[1]),
                         Send(EvDeviceRemoved(TouchDevice(d.touch[1])))>>]
         ELSE [d |-> d, out |-> <<>>]

\* seat.rs:274-287: the touch branch of the Capabilities handler
caps_touch(d, has, fresh) ==
    IF has
    THEN IF d.touch = None
         THEN [d |-> [d EXCEPT !.touch = Some(fresh)],
               out |-> <<HostGetTouch(fresh),
                         Send(EvDeviceAdded(TouchDevice(fresh)))>>]
         ELSE [d |-> d, out |-> <<>>]
    ELSE IF d.touch # None
         THEN [d |-> [d EXCEPT !.touch = None],
               out |-> <<HostReleaseTouch(d.touch[1]),
                         Send(EvDeviceRemoved(TouchDevice(d.touch[1])))>>]
         ELSE [d |-> d, out |-> <<>>]

\* A faulty variant that asks for a new lock although one is held.
lock_pointer_again(d, lp, fresh, pcBound) ==
    IF d.pointer = None \/ d.relative_pointer = None \/ ~pcBound
    THEN [d |-> d, lp |-> lp, out |-> <<>>]
    ELSE LET lock == <<fresh, d.pointer[1]>> IN
         [d |-> [d EXCEPT !.locked_pointer = Some(lock)],
          lp |-> Append(lp, lock),
          out |-> <<HostLockPointer(lock)>>]

\* seat.rs:52-80; lp is the backend's locked_pointers, pcBound whether the
\* host offers pointer constraints (the request fails otherwise)
lock_pointer(d, lp, fresh, pcBound) ==
    IF d.pointer = None \/ d.relative_pointer = None \/ d.locked_pointer # None
       \/ ~pcBound
    THEN [d |-> d, lp |-> lp, out |-> <<>>]
    ELSE LET lock == <<fresh, d.pointer[1]>> IN
         [d |-> [d EXCEPT !.locked_pointer = Some(lock)],
          lp |-> Append(lp, lock),
          out |-> <<HostLockPointer(lock)>>]

\* A faulty variant that destroys the lock but leaves it in the list.
unlock_pointer_keep_listed(d, lp) ==
    IF d.locked_pointer # None
    THEN [d |-> [d EXCEPT !.locked_pointer = None],
          lp |-> lp,
          out |-> <<HostDestroyLock(d.locked_pointer[1])>>]
    ELSE [d |-> d, lp |-> lp, out |-> <<>>]

\* seat.rs:82-89
unlock_pointer(d, lp) ==
    IF d.locked_pointer # None
    THEN [d |-> [d EXCEPT !.locked_pointer = None],
          lp |-> SeqFilterOut(lp, d.locked_pointer[1]),
          out |-> <<HostDestroyLock(d.locked_pointer[1])>>]
    ELSE [d |-> d, lp |-> lp, out |-> <<>>]

\* A faulty variant that drops the touch device without telling anyone.
remove_global_devices_silent_touch(d, lp) ==
    LET o1 == IF d.keyboard # None
              THEN <<HostReleaseKeyboard(d.keyboard[1]),
                     Send(EvDeviceRemoved(KeyboardDevice(d.keyboard[1])))>>
              ELSE <<>>
        o2 == IF d.locked_pointer # None
              THEN <<HostDestroyLock(d.locked_pointer[1])>>
              ELSE <<>>
        o3 == IF d.relative_pointer # None
              THEN <<HostDestroyRelativePointer(d.relative_pointer[1])>>
              ELSE <<>>
        o4 == IF d.pointer # None
              THEN <<HostReleasePointer(d.pointer[1]),
                     Send(EvDeviceRemoved(PointerDevice(d.pointer[1])))>>
              ELSE <<>>
    IN [d |-> DefaultDevices,
        lp |-> IF d.locked_pointer # None
               THEN SeqFilterOut(lp, d.locked_pointer[1]) ELSE lp,
        out |-> o1 \o o2 \o o3 \o o4]

\* seat.rs:138-165: the teardown of a removed seat's devices
remove_global_devices(d, lp) ==
    LET o1 == IF d.keyboard # None
              THEN <<HostReleaseKeyboard(d.keyboard[1]),
                     Send(EvDeviceRemoved(KeyboardDevice(d.keyboard[1])))>>
              ELSE <<>>
        o2 == IF d.locked_pointer # None
              THEN <<HostDestroyLock(d.locked_pointer[1])>>
              ELSE <<>>
        o3 == IF d.relative_pointer # None
              THEN <<HostDestroyRelativePointer(d.relative_pointer[1])>>
              ELSE <<>>
        o4 == IF d.pointer # None
              THEN <<HostReleasePointer(d.pointer[1]),
                     Send(EvDeviceRemoved(PointerDevice(d.pointer[1])))>>
              ELSE <<>>
        o5 == IF d.touch # None
              THEN <<HostReleaseTouch(d.touch[1]),
                     Send(EvDeviceRemoved(TouchDevice(d.touch[1])))>>
              ELSE <<>>
    IN [d |-> DefaultDevices,
        lp |-> IF d.locked_pointer # None
               THEN SeqFilterOut(lp, d.locked_pointer[1]) ELSE lp,
        out |-> o1 \o o2 \o o3 \o o4 \o o5]

\* seat.rs:104-122
NewGlobal(name) ==
    /\ alive
    /\ name \notin Range(seats)
    /\ seats' = Append(seats, name)
    /\ devices' = [devices EXCEPT ![name] = DefaultDevices]
    /\ kbdEntered' = [kbdEntered EXCEPT ![name] = FALSE]
    /\ kbdFocus' = [kbdFocus EXCEPT ![name] = FALSE]
    /\ Observe("new_global", <<Arg(<<name>>)>>)
    /\ UNCHANGED <<locked_pointers, prev_cursor_location, transform,
                   relative_pointer_bound, pointer_constraints_bound, seat_version, axis_frame>>
    /\ UNCHANGED <<gfxVars, redraw_state, alive, render_result, output_mode, ipc_output>>

\* seat.rs:124-170; the name need not belong to a seat of the list
RemoveGlobal(name) ==
    /\ alive
    /\ IF name \in Range(seats)
       THEN LET r == remove_global_devices(devices[name], locked_pointers) IN
            /\ devices' = [devices EXCEPT ![name] = r.d]
            /\ locked_pointers' = r.lp
            /\ seats' = SeqFilterOut(seats, name)
            /\ kbdEntered' = [kbdEntered EXCEPT ![name] = FALSE]
            /\ kbdFocus' = [kbdFocus EXCEPT ![name] = FALSE]
            /\ axis_frame' = [axis_frame EXCEPT ![name] = AxisFrameDefault]
            /\ Observe("remove_global", <<Arg(<<name>>)>> \o r.out)
       ELSE /\ UNCHANGED <<devices, locked_pointers, seats, kbdEntered, kbdFocus, axis_frame>>
            /\ Observe("remove_global", <<Arg(<<name>>)>>)
    /\ UNCHANGED <<prev_cursor_location, transform,
                   relative_pointer_bound, pointer_constraints_bound, seat_version>>
    /\ UNCHANGED <<gfxVars, redraw_state, alive, render_result, output_mode, ipc_output>>

\* seat.rs:228-289; caps is the set of classes the host announces
Capabilities(name, caps) ==
    /\ alive
    /\ name \in Range(seats)
    /\ LET d0 == devices[name]
           k == caps_keyboard(d0, "Keyboard" \in caps, Fresh(KeyboardRefs))
           p == caps_pointer(k.d, "Pointer" \in caps, Fresh(PointerRefs),
                             Fresh(RelativePointerRefs), relative_pointer_bound)
           t == caps_touch(p.d, "Touch" \in caps, Fresh(TouchRefs))
       IN /\ (d0.keyboard = None /\ "Keyboard" \in caps) => Fresh(KeyboardRefs) # 0
          /\ (d0.pointer = None /\ "Pointer" \in caps) => Fresh(PointerRefs) # 0
          /\ (d0.relative_pointer = None /\ "Pointer" \in caps) =>
                 Fresh(RelativePointerRefs) # 0
          /\ (d0.touch = None /\ "Touch" \in caps) => Fresh(TouchRefs) # 0
          /\ devices' = [devices EXCEPT ![name] = t.d]
          /\ kbdFocus' = [kbdFocus EXCEPT ![name] =
                             IF t.d.keyboard = d0.keyboard THEN @ ELSE FALSE]
          /\ axis_frame' = [axis_frame EXCEPT ![name] =
                               IF t.d.pointer = d0.pointer THEN @ ELSE AxisFrameDefault]
          /\ Observe("capabilities", <<Arg(<<name, caps>>)>> \o k.out \o p.out \o t.out)
    /\ UNCHANGED <<seats, kbdEntered, locked_pointers, prev_cursor_location, transform,
                   relative_pointer_bound, pointer_constraints_bound, seat_version>>
    /\ UNCHANGED <<gfxVars, redraw_state, alive, render_result, output_mode, ipc_output>>

\* seat.rs:312-333: wl_keyboard.enter for the seat's keyboard; the handler
\* does not rely on the host sending a leave before the next enter
KeyboardEnter(name) ==
    /\ alive
    /\ devices[name].keyboard # None
    /\ LET r == lock_pointer(devices[name], locked_pointers, Fresh(LockRefs),
                             pointer_constraints_bound)
       IN /\ Fresh(LockRefs) # 0
          /\ devices' = [devices EXCEPT ![name] = r.d]
          /\ locked_pointers' = r.lp
          /\ Observe("keyboard_enter",
                     <<Arg(<<name>>), Send(EvKeyboardEnter(KeyboardDevice(devices[name].keyboard[1])))>>
                       \o r.out)
    /\ kbdEntered' = [kbdEntered EXCEPT ![name] = TRUE]
    /\ kbdFocus' = [kbdFocus EXCEPT ![name] = TRUE]
    /\ UNCHANGED <<seats, prev_cursor_location, transform,
                   relative_pointer_bound, pointer_constraints_bound, seat_version, axis_frame>>
    /\ UNCHANGED <<gfxVars, redraw_state, alive, render_result, output_mode, ipc_output>>

\* seat.rs:334-340: wl_keyboard.leave for the seat's keyboard
KeyboardLeave(name) ==
    /\ alive
    /\ devices[name].keyboard # None
    /\ kbdFocus[name]
    /\ LET r == unlock_pointer(devices[name], locked_pointers) IN
          /\ devices' = [devices EXCEPT ![name] = r.d]
          /\ locked_pointers' = r.lp
          /\ Observe("keyboard_leave",
                     <<Arg(<<name>>), Send(EvKeyboardLeave(KeyboardDevice(devices[name].keyboard[1])))>>
                       \o r.out)
    /\ kbdEntered' = [kbdEntered EXCEPT ![name] = FALSE]
    /\ kbdFocus' = [kbdFocus EXCEPT ![name] = FALSE]
    /\ UNCHANGED <<seats, prev_cursor_location, transform,
                   relative_pointer_bound, pointer_constraints_bound, seat_version, axis_frame>>
    /\ UNCHANGED <<gfxVars, redraw_state, alive, render_result, output_mode, ipc_output>>

----------------------------------------------------------------------------
\* Pointer events (seat.rs:405-595, input.rs:337-401).

\* seat.rs:582: pointers below this version get no wl_pointer.frame
AxisFrameVersion == 5

EvPointerEnter(dev) == <<"Input", "PointerEnter", dev>>
EvPointerLeave(dev) == <<"Input", "PointerLeave", dev>>
EvPointerMotionAbsolute(dev, time) == <<"Input", "PointerMotionAbsolute", dev, time>>
EvPointerButton(dev, time) == <<"Input", "PointerButton", dev, time>>
EvPointerAxis(dev, af) == <<"Input", "PointerAxis", dev, af>>

\* What the host sends on a wl_pointer; times are u32 milliseconds.
\* The thousandfold of the largest one does not fit 32 bits.
HostTimes == {U32Zero, <<0, 1>>, <<65535, 65535>>}
ScrollValues == {-1, 0, MaxScroll}
Axes == {"Vertical", "Horizontal"}
PointerEvents ==
    {<<"Enter">>, <<"Leave">>, <<"Frame">>}
    \cup {<<"Motion", t>> : t \in HostTimes}
    \cup {<<"Button", t>> : t \in HostTimes}
    \cup {<<"Axis", t, a, v>> : t \in HostTimes, a \in Axes, v \in ScrollValues}
    \cup {<<"AxisSource", src>> : src \in {"Wheel", "Finger"}}
    \cup {<<"AxisStop", t, a>> : t \in HostTimes, a \in {"Vertical"}}
    \cup {<<"AxisDiscrete", a, 1>> : a \in {"Vertical"}}

\* Events that exist since version 5 of wl_pointer only.
SinceVersion5 == {"Frame", "AxisSource", "AxisStop", "AxisDiscrete"}

\* input.rs:349-369, Index<Axis> for AxisFrame
AxisField(axis) == IF axis = "Vertical" THEN "vertical" ELSE "horizontal"

\* input.rs:395-401, AxisFrame::time
axis_frame_time(af, time) ==
    IF af.time = U32Zero THEN [af EXCEPT !.time = time] ELSE af

\* A faulty variant that keeps the last value of an axis instead of the sum.
pointer_match_last_value(af, ev, dev) ==
    IF ev[1] = "Axis"
    THEN [frame |-> [axis_frame_time(af, ev[2])
                       EXCEPT ![AxisField(ev[3])].absolute = ev[4]],
          out |-> <<>>]
    ELSE IF ev[1] = "Frame"
    THEN [frame |-> AxisFrameDefault, out |-> <<Send(EvPointerAxis(dev, af))>>]
    ELSE [frame |-> af, out |-> <<>>]

\* seat.rs:438-580: the match over the wl_pointer event
pointer_match(af, ev, dev) ==
    CASE ev[1] = "Enter" -> [frame |-> af, out |-> <<Send(EvPointerEnter(dev))>>]
      [] ev[1] = "Leave" -> [frame |-> af, out |-> <<Send(EvPointerLeave(dev))>>]
      [] ev[1] = "Motion" ->
           [frame |-> af, out |-> <<Send(EvPointerMotionAbsolute(dev, ev[2]))>>]
      [] ev[1] = "Button" ->
           [frame |-> af, out |-> <<Send(EvPointerButton(dev, ev[2]))>>]
      [] ev[1] = "Axis" ->
           [frame |-> [axis_frame_time(af, ev[2])
                         EXCEPT ![AxisField(ev[3])].absolute = @ + ev[4]],
            out |-> <<>>]
      [] ev[1] = "Frame" ->
           [frame |-> AxisFrameDefault, out |-> <<Send(EvPointerAxis(dev, af))>>]
      [] ev[1] = "AxisSource" -> [frame |-> [af EXCEPT !.source = ev[2]], out |-> <<>>]
      [] ev[1] = "AxisStop" -> [frame |-> axis_frame_time(af, ev[2]), out |-> <<>>]
      [] ev[1] = "AxisDiscrete" ->
           [frame |-> [af EXCEPT ![AxisField(ev[2])].v120 = @ + ev[3] * 120],
            out |-> <<>>]

\* seat.rs:405-595, Dispatch<WlPointer, PointerData>::event
pointer_event(af, ev, dev, version) ==
    LET m == pointer_match(af, ev, dev) IN
    IF version < AxisFrameVersion
    THEN [frame |-> AxisFrameDefault,
          out |-> m.out \o (IF m.frame # AxisFrameDefault
                            THEN <<Send(EvPointerAxis(dev, m.frame))>> ELSE <<>>)]
    ELSE m

Abs(x) == IF x < 0 THEN -x ELSE x

PointerEvent(name, ev) ==
    /\ alive
    /\ devices[name].pointer # None
    /\ ev[1] \in SinceVersion5 => seat_version[name] >= AxisFrameVersion
    /\ LET r == pointer_event(axis_frame[name], ev, PointerDevice(devices[name].pointer[1]),
                              seat_version[name])
           m == pointer_match(axis_frame[name], ev, PointerDevice(devices[name].pointer[1]))
           b == HostBatchAdd(hostAxis[name], ev)
       IN /\ Abs(b.vertical) + Abs(b.horizontal)
               + (m.frame.vertical.v120 + m.frame.horizontal.v120) \div 120 <= MaxScroll
          /\ Abs(m.frame.vertical.absolute) + Abs(m.frame.horizontal.absolute) <= MaxScroll
          /\ axis_frame' = [axis_frame EXCEPT ![name] = r.frame]
          /\ Observe("pointer_event", <<Arg(<<name, ev>>)>> \o r.out)
    /\ UNCHANGED <<seats, devices, kbdFocus, kbdEntered, locked_pointers,
                   prev_cursor_location, transform, relative_pointer_bound,
                   pointer_constraints_bound, seat_version>>
    /\ UNCHANGED <<gfxVars, redraw_state, alive, render_result, output_mode, ipc_output>>

----------------------------------------------------------------------------
\* Keyboard keys, relative motion and touch (seat.rs:341-361, 597-613,
\* 661-744) and the time of an event (input.rs:175-186, 278-280, 407-409).

EvKeyboard(dev, time) == <<"Input", "Keyboard", dev, time>>
EvPointerMotion(dev, relative_motion) == <<"Input", "PointerMotion", dev, relative_motion>>
EvTouch(kind, dev, time) == <<"Input", kind, dev, time>>

\* Relative motion carries a u64 of microseconds.
HostUtimes == {<<0, 0, 0, 0>>, <<0, 1, 0, 5>>, <<65535, 65535, 65535, 65535>>}
TouchEvents ==
    {<<k, t>> : k \in {"Down", "Up", "Motion"}, t \in HostTimes}
    \cup {<<"Frame">>, <<"Cancel">>, <<"Shape">>, <<"Orientation">>}

\* seat.rs:341-361, wl_keyboard::Event::Key
KeyboardKey(name, time) ==
    /\ alive
    /\ devices[name].keyboard # None
    /\ Observe("keyboard_key",
               <<Arg(<<name, time>>),
                 Send(EvKeyboard(KeyboardDevice(devices[name].keyboard[1]), time))>>)
    /\ UNCHANGED seatVars
    /\ UNCHANGED <<gfxVars, redraw_state, alive, render_result, output_mode, ipc_output>>

\* seat.rs:597-613, RelativePointerHandler::relative_pointer_motion
RelativePointerMotion(name, utime) ==
    /\ alive
    /\ devices[name].pointer # None
    /\ devices[name].relative_pointer # None
    /\ Observe("relative_pointer_motion",
               <<Arg(<<name, utime>>),
                 Send(EvPointerMotion(PointerDevice(devices[name].pointer[1]),
                                      [utime |-> utime]))>>)
    /\ UNCHANGED seatVars
    /\ UNCHANGED <<gfxVars, redraw_state, alive, render_result, output_mode, ipc_output>>

\* seat.rs:670-742: the match over the wl_touch event
touch_event(ev, dev) ==
    CASE ev[1] = "Down" -> <<Send(EvTouch("TouchDown", dev, ev[2]))>>
      [] ev[1] = "Up" -> <<Send(EvTouch("TouchUp", dev, ev[2]))>>
      [] ev[1] = "Motion" -> <<Send(EvTouch("TouchMotion", dev, ev[2]))>>
      [] ev[1] = "Frame" -> <<Send(EvTouch("TouchFrame", dev, U32Zero))>>
      [] ev[1] = "Cancel" -> <<Send(EvTouch("TouchCancel", dev, U32Zero))>>
      [] ev[1] \in {"Shape", "Orientation"} -> <<>>

TouchEvent(name, ev) ==
    /\ alive
    /\ devices[name].touch # None
    /\ Observe("touch_event",
               <<Arg(<<name, ev>>)>> \o touch_event(ev, TouchDevice(devices[name].touch[1])))
    /\ UNCHANGED seatVars
    /\ UNCHANGED <<gfxVars, redraw_state, alive, render_result, output_mode, ipc_output>>

\* `as u64`: zero extension of a u32
as_u64(t) == <<0, 0, t[1], t[2]>>

\* u64 * small factor, wrapping at 64 bits
mul_u64(a, k) ==
    LET p0 == a[4] * k
        p1 == a[3] * k + p0 \div Limb
        p2 == a[2] * k + p1 \div Limb
        p3 == a[1] * k + p2 \div Limb
    IN <<p3 % Limb, p2 % Limb, p1 % Limb, p0 % Limb>>

\* A faulty variant that multiplies in 32 bits and widens the product.
millis_to_micros_narrow(t) ==
    LET p == mul_u64(as_u64(t), 1000) IN <<0, 0, p[3], p[4]>>

\* input.rs:183, 408: `time as u64 * 1000 // millis to micros`
millis_to_micros(t) == mul_u64(as_u64(t), 1000)

MillisEvents ==
    {"Keyboard", "PointerMotionAbsolute", "PointerButton",
     "TouchDown", "TouchUp", "TouchMotion", "TouchFrame", "TouchCancel"}

\* input.rs:175-186, 278-280, 407-409: Event::time of the event structs
time(ev) ==
    CASE ev[2] \in MillisEvents -> millis_to_micros(ev[4])
      [] ev[2] = "PointerAxis" -> millis_to_micros(ev[4].time)
      [] ev[2] = "PointerMotion" -> ev[4].utime

Timed(ev) ==
    /\ ev[1] = "Input"
    /\ ev[2] \in MillisEvents \cup {"PointerAxis", "PointerMotion"}

\* The main loop asks the event it has just received for its time.
EventTime ==
    /\ alive
    /\ op = "consume"
    /\ Timed(out[1])
    /\ op' = "time"
    /\ out' = <<Arg(<<out[1]>>), <<"ret", time(out[1])>>>>
    /\ emitted' = <<>>
    /\ hostLocks' = hostLocks /\ hostAxis' = hostAxis /\ backlog' = backlog /\ announced' = announced /\ counter' = counter /\ capture' = capture
    /\ UNCHANGED <<gfxVars, loopVars, seatVars>>

----------------------------------------------------------------------------
\* Cursor position hints (wayland.rs:256-293, input.rs:76-129).

Transforms ==
    {"Normal", "_90", "_180", "_270",
     "Flipped", "Flipped90", "Flipped180", "Flipped270"}

\* smithay Transform::invert, used at wayland.rs:274
invert(t) ==
    CASE t = "_90" -> "_270"
      [] t = "_270" -> "_90"
      [] OTHER -> t

\* smithay Transform::transform_size, used at wayland.rs:271
transform_size(t, sz) ==
    IF t \in {"_90", "_270", "Flipped90", "Flipped270"}
    THEN <<sz[2], sz[1]>> ELSE sz

\* A faulty variant whose Normal arm mirrors the point horizontally.
transform_point_in_mirrored(t, pt, area) ==
    IF t = "Normal" THEN <<area[1] - pt[1], pt[2]>>
    ELSE IF t = "_180" THEN <<area[1] - pt[1], area[2] - pt[2]>>
    ELSE pt

\* smithay Transform::transform_point_in, used at input.rs:109-110
transform_point_in(t, pt, area) ==
    CASE t = "Normal" -> pt
      [] t = "_90" -> <<area[2] - pt[2], pt[1]>>
      [] t = "_180" -> <<area[1] - pt[1], area[2] - pt[2]>>
      [] t = "_270" -> <<pt[2], area[1] - pt[1]>>
      [] t = "Flipped" -> <<area[1] - pt[1], pt[2]>>
      [] t = "Flipped90" -> <<pt[2], pt[1]>>
      [] t = "Flipped180" -> <<pt[1], area[2] - pt[2]>>
      [] t = "Flipped270" -> <<area[2] - pt[2], area[1] - pt[1]>>

\* input.rs:97-100
physical_bounds(sz) == <<sz[1] - 1, sz[2] - 1>>

\* input.rs:108-112, RawAbsolutePosition::new(x, y, t, sz).position()
position(pt, t, sz) == transform_point_in(t, pt, physical_bounds(sz))

\* wayland.rs:265-269
hint_transform(t) ==
    CASE t = "Flipped90" -> "Flipped270"
      [] t = "Flipped270" -> "Flipped90"
      [] OTHER -> t

\* wayland.rs:262-275: the position sent to the host for a logical location
hint_location(location, t, ws) ==
    LET tr == hint_transform(t)
        output_area == transform_size(tr, ws)
    IN position(location, invert(tr), output_area)

\* A faulty variant that only knows the top and left edges.
on_edge_top_left(loc, ws) ==
    \/ loc[1] = 0
    \/ loc[2] = 0

\* wayland.rs:284-287
on_edge(loc, ws) ==
    \/ loc[1] = 0
    \/ loc[2] = 0
    \/ loc[1] + 1 = ws[1]
    \/ loc[2] + 1 = ws[2]

\* A faulty variant that hints the first lock of the list only.
send_hints_first_only(lp, loc) ==
    IF lp = <<>> THEN <<>> ELSE <<HostCursorHint(Head(lp), loc)>>

\* wayland.rs:277-279
RECURSIVE send_hints(_, _)
send_hints(lp, loc) ==
    IF lp = <<>> THEN <<>>
    ELSE <<HostCursorHint(Head(lp), loc)>> \o send_hints(Tail(lp), loc)

\* wayland.rs:289-291: unlock_pointer for every seat of the list, in order
RECURSIVE unlock_all(_, _, _)
unlock_all(ss, devs, lp) ==
    IF ss = <<>> THEN [devs |-> devs, lp |-> lp, out |-> <<>>]
    ELSE LET r == unlock_pointer(devs[Head(ss)], lp)
             rest == unlock_all(Tail(ss), [devs EXCEPT ![Head(ss)] = r.d], r.lp)
         IN [devs |-> rest.devs, lp |-> rest.lp, out |-> r.out \o rest.out]

\* A faulty variant without the early return for an unchanged location.
set_cursor_position_hint_every_call(location, prev, t, ws, ss, devs, lp) ==
    LET loc == hint_location(location, t, ws)
        hints == send_hints(lp, loc)
    IN IF on_edge(loc, ws)
       THEN LET u == unlock_all(ss, devs, lp) IN
            [devs |-> u.devs, lp |-> u.lp, out |-> hints \o u.out]
       ELSE [devs |-> devs, lp |-> lp, out |-> hints]

\* wayland.rs:256-293
set_cursor_position_hint(location, prev, t, ws, ss, devs, lp) ==
    IF location = prev
    THEN [devs |-> devs, lp |-> lp, out |-> <<>>]
    ELSE LET loc == hint_location(location, t, ws)
             hints == send_hints(lp, loc)
         IN IF on_edge(loc, ws)
            THEN LET u == unlock_all(ss, devs, lp) IN
                 [devs |-> u.devs, lp |-> u.lp, out |-> hints \o u.out]
            ELSE [devs |-> devs, lp |-> lp, out |-> hints]

SetCursorPositionHint(location) ==
    /\ alive
    /\ LET r == set_cursor_position_hint(location, prev_cursor_location, transform,
                                         window_size, seats, devices, locked_pointers)
       IN /\ prev_cursor_location' = location
          /\ devices' = r.devs
          /\ locked_pointers' = r.lp
          /\ Observe("set_cursor_position_hint", <<Arg(<<location>>)>> \o r.out)
    /\ UNCHANGED <<seats, kbdFocus, kbdEntered, transform,
                   relative_pointer_bound, pointer_constraints_bound, seat_version, axis_frame>>
    /\ UNCHANGED <<gfxVars, redraw_state, alive, render_result, output_mode, ipc_output>>

\* The compositor applies another output transform (configuration change).
SetTransform(t) ==
    /\ alive
    /\ t # transform
    /\ transform' = t
    /\ op' = "set_transform" /\ out' = <<>> /\ emitted' = <<>> /\ hostLocks' = hostLocks /\ hostAxis' = hostAxis /\ backlog' = backlog /\ announced' = announced /\ counter' = counter /\ capture' = capture
    /\ UNCHANGED <<seats, devices, kbdFocus, kbdEntered, locked_pointers, prev_cursor_location,
                   relative_pointer_bound, pointer_constraints_bound, seat_version, axis_frame>>
    /\ UNCHANGED <<gfxVars, loopVars>>

----------------------------------------------------------------------------
\* Image copy capture (protocols/image_copy_capture.rs): one client with one
\* capture session and its frames.

\* A call on a resource: an event sent to the client, or a protocol error.
\* The resource is <<"session">> or <<"frame", id>>.
ResEvent(res, name, arg) == <<"event", res, name, arg>>

ResError(res, code) == <<"error", res, code>>

FrameRes(id) == <<"frame", id>>

\* wayland-server: a protocol error ends the client's connection, and what is
\* sent after it does not reach the client.
Delivered(calls) ==
    LET errs == {i \in 1..Len(calls) : calls[i][1] = "error"} IN
    IF errs = {} THEN calls
    ELSE SubSeq(calls, 1, CHOOSE i \in errs : \A j \in errs : i <= j)

\* image_copy_capture.rs:175-185, From<ExtImageCopyCaptureFrameV1> for Frame
FrameFrom(id) ==
    [resource |-> id, capture_requested |-> FALSE, result |-> None, buffer |-> None]

\* image_copy_capture.rs:311-313
should_render(f) == f.result = None /\ f.capture_requested

\* image_copy_capture.rs:460-475, Frame::fail
frame_fail(f, reason, is_alive) ==
    IF ~is_alive THEN [f |-> f, calls |-> <<>>]
    ELSE IF f.result # None THEN [f |-> f, calls |-> <<>>]
    ELSE [f |-> [f EXCEPT !.result = Some(<<"Failure", reason>>)],
          calls |-> IF f.capture_requested
                    THEN <<ResEvent(FrameRes(f.resource), "failed", reason)>>
                    ELSE <<>>]

\* image_copy_capture.rs:418-458, Frame::success
frame_success(f, is_alive) ==
    IF f.result # None THEN [f |-> f, calls |-> <<>>]
    ELSE IF ~f.capture_requested
    THEN [f |-> [f EXCEPT !.result = Some(<<"Failure", "Unknown">>)], calls |-> <<>>]
    ELSE IF ~is_alive THEN [f |-> f, calls |-> <<>>]
    ELSE [f |-> [f EXCEPT !.result = Some(<<"Sucess">>)],
          calls |-> <<ResEvent(FrameRes(f.resource), "transform", None),
                      ResEvent(FrameRes(f.resource), "presentation_time", None),
                      ResEvent(FrameRes(f.resource), "ready", None)>>]

\* image_copy_capture.rs:316-416, Frame::capture; a buffer is "fits" or
\* "unfit" for the session's constraints (type, size and format)
frame_capture(f, is_alive) ==
    LET res == FrameRes(f.resource)
        c0 == IF f.capture_requested THEN <<ResError(res, "AlreadyCaptured")>> ELSE <<>>
        f1 == [f EXCEPT !.capture_requested = TRUE]
    IN IF f.buffer = None
       THEN [f |-> f1, calls |-> c0 \o <<ResError(res, "NoBuffer")>>]
       ELSE IF f.result # None
       THEN [f |-> f1,
             calls |-> c0 \o <<ResEvent(res, "failed",
                                        IF f.result[1][1] = "Sucess" THEN "Unknown"
                                        ELSE f.result[1][2])>>]
       ELSE IF f.buffer[1] = "unfit"
       THEN LET r == frame_fail(f1, "BufferConstraints", is_alive) IN
            [f |-> r.f, calls |-> c0 \o r.calls]
       ELSE [f |-> f1, calls |-> c0]

\* image_copy_capture.rs:242-254, Session::stop; frameAlive tells of a frame
\* resource whether it is alive
session_stop(s, frameAlive) ==
    LET c1 == IF s.frame # None
              THEN frame_fail(s.frame[1], "Stopped", frameAlive[s.frame[1].resource]).calls
              ELSE <<>>
        c2 == IF s.alive /\ ~s.stopped
              THEN <<ResEvent(<<"session">>, "stopped", None)>> ELSE <<>>
    IN [s |-> [s EXCEPT !.frame = None, !.stopped = TRUE], calls |-> c1 \o c2]

\* image_copy_capture.rs:64-67, 105-108: no session yet.  A frame resource
\* is "unborn", "normal", "inert" or "destroyed"; captures counts the capture
\* requests made on it and sent lists what reached the client through it.
ImageCopyCaptureNew ==
    [connected |-> TRUE,
     session |-> None,
     resources |-> [id \in {} |-> 0]]

NewResource(kind) == [state |-> kind, captures |-> 0, sent |-> <<>>]

FrameAlive(c) == [id \in DOMAIN c.resources |-> c.resources[id].state \notin {"destroyed"}]

\* The session that holds the frame of the resource, as the handlers look it
\* up (image_copy_capture.rs:1011-1015).
SessionOfFrame(c, id) ==
    /\ c.session # None
    /\ c.session[1].listed
    /\ c.session[1].frame # None
    /\ c.session[1].frame[1].resource = id

\* The state after a handler made its calls: what was delivered is added to
\* the frames' records, and an error leaves the client disconnected.
AfterCalls(c, calls) ==
    LET d == Delivered(calls) IN
    [c EXCEPT !.connected = @ /\ \A i \in 1..Len(d) : d[i][1] # "error",
              !.resources = [id \in DOMAIN @ |->
                  [@[id] EXCEPT !.sent = @ \o SelectSeq(d, LAMBDA x : x[2] = FrameRes(id))]]]

CaptureObserve(name, o) ==
    /\ op' = name /\ out' = o /\ emitted' = <<>>
    /\ hostLocks' = hostLocks /\ hostAxis' = hostAxis /\ backlog' = backlog
    /\ announced' = announced /\ counter' = counter
    /\ UNCHANGED <<gfxVars, loopVars, seatVars>>

\* image_copy_capture.rs:659-707: create_session with a source that can be
\* captured, or with one that cannot
CreateSession(valid) ==
    /\ capture.connected
    /\ capture.session = None
    /\ IF valid
       THEN /\ capture' = [capture EXCEPT !.session =
                    Some([listed |-> TRUE, alive |-> TRUE, stopped |-> FALSE, frame |-> None])]
            /\ CaptureObserve("create_session", <<Arg(<<valid>>)>>)
       ELSE LET r == session_stop([listed |-> FALSE, alive |-> TRUE, stopped |-> FALSE,
                                   frame |-> None], FrameAlive(capture))
            IN /\ capture' = AfterCalls([capture EXCEPT !.session = Some(r.s)], r.calls)
               /\ CaptureObserve("create_session", <<Arg(<<valid>>)>> \o r.calls)

\* image_copy_capture.rs:783-804: create_frame; id is the new frame object
CreateFrame ==
    /\ capture.connected
    /\ capture.session # None
    /\ capture.session[1].alive
    /\ Cardinality(DOMAIN capture.resources) < MaxFrames
    /\ LET id == Cardinality(DOMAIN capture.resources) + 1
           s == capture.session[1]
           born(kind) == [i \in DOMAIN capture.resources \cup {id} |->
                             IF i = id THEN NewResource(kind) ELSE capture.resources[i]]
       IN IF s.listed
          THEN IF s.frame # None
               THEN LET calls == <<ResError(<<"session">>, "DuplicateFrame")>> IN
                    /\ capture' = AfterCalls([capture EXCEPT !.resources = born("unborn")], calls)
                    /\ CaptureObserve("create_frame", <<Arg(<<id>>)>> \o calls)
               ELSE /\ capture' = [capture EXCEPT !.resources = born("normal"),
                                                  !.session[1].frame = Some(FrameFrom(id))]
                    /\ CaptureObserve("create_frame", <<Arg(<<id>>)>>)
          ELSE /\ capture' = [capture EXCEPT !.resources = born("inert")]
               /\ CaptureObserve("create_frame", <<Arg(<<id>>)>>)

\* image_copy_capture.rs:986, 1019-1023: destroy of a frame
DestroyFrame(id) ==
    /\ capture.connected
    /\ id \in DOMAIN capture.resources
    /\ capture.resources[id].state \in {"normal", "inert"}
    /\ capture' = [capture EXCEPT
           !.resources[id].state = "destroyed",
           !.session = IF capture.resources[id].state = "normal" /\ SessionOfFrame(capture, id)
                       THEN Some([@[1] EXCEPT !.frame = None]) ELSE @]
    /\ CaptureObserve("destroy_frame", <<Arg(<<id>>)>>)

\* image_copy_capture.rs:987, 1025-1039: attach_buffer
AttachBuffer(id, buffer) ==
    /\ capture.connected
    /\ id \in DOMAIN capture.resources
    /\ capture.resources[id].state \in {"normal", "inert"}
    /\ IF capture.resources[id].state = "normal" /\ SessionOfFrame(capture, id)
       THEN IF capture.session[1].frame[1].capture_requested
            THEN LET calls == <<ResError(FrameRes(id), "AlreadyCaptured")>> IN
                 /\ capture' = AfterCalls(capture, calls)
                 /\ CaptureObserve("attach_buffer", <<Arg(<<id, buffer>>)>> \o calls)
            ELSE /\ capture' = [capture EXCEPT
                        !.session = Some([@[1] EXCEPT !.frame = Some([@[1] EXCEPT !.buffer = Some(buffer)])])]
                 /\ CaptureObserve("attach_buffer", <<Arg(<<id, buffer>>)>>)
       ELSE /\ capture' = capture
            /\ CaptureObserve("attach_buffer", <<Arg(<<id, buffer>>)>>)

\* image_copy_capture.rs:1073-1087: what capture does for a normal frame
capture_request(c, id) ==
    IF SessionOfFrame(c, id)
    THEN LET s == c.session[1]
             r == IF s.stopped THEN frame_fail(s.frame[1], "Stopped", FrameAlive(c)[id])
                  ELSE frame_capture(s.frame[1], FrameAlive(c)[id])
         IN [c |-> [c EXCEPT !.session = Some([s EXCEPT !.frame = Some(r.f)])],
             calls |-> r.calls]
    ELSE [c |-> c, calls |-> <<ResEvent(FrameRes(id), "failed", "Stopped")>>]

\* image_copy_capture.rs:989-991, 1073-1087: capture
Capture(id) ==
    /\ capture.connected
    /\ id \in DOMAIN capture.resources
    /\ capture.resources[id].state \in {"normal", "inert"}
    /\ capture.resources[id].captures < MaxCaptures
    /\ LET c0 == [capture EXCEPT !.resources[id].captures = @ + 1]
           r == IF capture.resources[id].state = "normal" THEN capture_request(c0, id)
                ELSE [c |-> c0, calls |-> <<ResEvent(FrameRes(id), "failed", "Stopped")>>]
       IN /\ capture' = AfterCalls(r.c, r.calls)
          /\ CaptureObserve("capture", <<Arg(<<id>>)>> \o r.calls)

\* image_copy_capture.rs:806-828: destroy of the session and its destroyed()
DestroySession ==
    /\ capture.connected
    /\ capture.session # None
    /\ capture.session[1].alive
    /\ LET s == [capture.session[1] EXCEPT !.alive = FALSE]
           r == IF s.listed /\ ~s.stopped THEN session_stop(s, FrameAlive(capture))
                ELSE [s |-> s, calls |-> <<>>]
       IN /\ capture' = AfterCalls([capture EXCEPT !.session = Some([r.s EXCEPT !.listed = FALSE])],
                                   r.calls)
          /\ CaptureObserve("destroy_session", r.calls)

\* The compositor finishes the frame of the session: Session::with_frame
\* (image_copy_capture.rs:222-224) with Frame::success
Success ==
    /\ capture.connected
    /\ capture.session # None /\ capture.session[1].listed
    /\ capture.session[1].frame # None
    /\ LET f == capture.session[1].frame[1]
           r == frame_success(f, FrameAlive(capture)[f.resource])
       IN /\ capture' = AfterCalls([capture EXCEPT
                              !.session = Some([@[1] EXCEPT !.frame = Some(r.f)])], r.calls)
          /\ CaptureObserve("success", <<Arg(<<f.resource>>)>> \o r.calls)

\* Session::with_frame with Frame::fail
Fail(reason) ==
    /\ capture.connected
    /\ capture.session # None /\ capture.session[1].listed
    /\ capture.session[1].frame # None
    /\ LET f == capture.session[1].frame[1]
           r == frame_fail(f, reason, FrameAlive(capture)[f.resource])
       IN /\ capture' = AfterCalls([capture EXCEPT
                              !.session = Some([@[1] EXCEPT !.frame = Some(r.f)])], r.calls)
          /\ CaptureObserve("fail", <<Arg(<<f.resource, reason>>)>> \o r.calls)

\* The compositor stops the session: Session::stop
Stop ==
    /\ capture.connected
    /\ capture.session # None /\ capture.session[1].listed
    /\ LET r == session_stop(capture.session[1], FrameAlive(capture)) IN
       /\ capture' = AfterCalls([capture EXCEPT !.session = Some(r.s)], r.calls)
       /\ CaptureObserve("stop", r.calls)

----------------------------------------------------------------------------
\* RichGeometry (handlers/xwayland.rs).

\* i32 values are integers in -2^31 .. 2^31 - 1; the bit operations are those
\* of two's complement.
I32FromBits(sign, low31) == IF sign THEN (low31 - 2147483647) - 1 ELSE low31

I32Low31(a) == IF a < 0 THEN (a + 2147483647) + 1 ELSE a

RECURSIVE OrBits(_, _, _)
OrBits(a, b, n) ==
    IF n = 0 THEN 0
    ELSE (IF a % 2 = 1 \/ b % 2 = 1 THEN 1 ELSE 0) + 2 * OrBits(a \div 2, b \div 2, n - 1)

RECURSIVE AndBits(_, _, _)
AndBits(a, b, n) ==
    IF n = 0 THEN 0
    ELSE (IF a % 2 = 1 /\ b % 2 = 1 THEN 1 ELSE 0) + 2 * AndBits(a \div 2, b \div 2, n - 1)

\* a | b
i32_or(a, b) == I32FromBits(a < 0 \/ b < 0, OrBits(I32Low31(a), I32Low31(b), 31))

\* a & b
i32_and(a, b) == I32FromBits(a < 0 /\ b < 0, AndBits(I32Low31(a), I32Low31(b), 31))

\* a << n for 1 < n < 32: the high bits are shifted out
i32_shl(a, n) ==
    LET m == a % (2 ^ (32 - n))
        half == 2 ^ (31 - n)
    IN IF m >= half THEN I32FromBits(TRUE, (m - half) * (2 ^ n)) ELSE m * (2 ^ n)

\* a >> n: the arithmetic shift of a signed integer
i32_shr(a, n) ==
    IF a >= 0 THEN a \div (2 ^ n) ELSE (I32Low31(a) \div (2 ^ n)) - (2 ^ (31 - n))

\* xwayland.rs:86: (u32) as i32
u32_as_i32(u) == IF u[1] < 32768 THEN u[1] * Limb + u[2] ELSE (u[1] - Limb) * Limb + u[2]

\* xwayland.rs:102: (i32) as u32
i32_as_u32(i) ==
    IF i >= 0 THEN <<i \div Limb, i % Limb>>
    ELSE LET low == I32Low31(i) IN <<(low \div Limb) + 32768, low % Limb>>

\* WorkspaceId wraps a u32: inner_u32 unwraps it, new_from_u32 wraps it.
inner_u32(workspace_id) == workspace_id

new_from_u32(u) == u

\* xwayland.rs:86-87, 96: the shifts
X_SHIFT == 23

Y_SHIFT == 15

ID_SHIFT == 8

\* xwayland.rs:86, 94, 95: the masks 0xFF, 0x7FFFFF, 0x007FFF
ID_LOW_MASK == 255

X_MASK == 8388607

Y_MASK == 32767

\* xwayland.rs:76-79: a RichGeometry; Absolute has no workspace id and the
\* field is held at zero.
Absolute(rect) == [kind |-> "Absolute", id |-> U32Zero, rect |-> rect]

Workspace(workspace_id, rect) == [kind |-> "Workspace", id |-> workspace_id, rect |-> rect]

\* Rectangle::from_loc_and_size
from_loc_and_size(loc, size) == [loc |-> loc, size |-> size]

\* xwayland.rs:82-92
into_fake(g) ==
    IF g.kind = "Absolute" THEN g.rect
    ELSE LET workspace_id == u32_as_i32(inner_u32(g.id))
             x == i32_or(g.rect.loc[1], i32_shl(i32_and(workspace_id, ID_LOW_MASK), X_SHIFT))
             y == i32_or(g.rect.loc[2], i32_shl(i32_shr(workspace_id, ID_SHIFT), Y_SHIFT))
         IN from_loc_and_size(<<x, y>>, g.rect.size)

\* A faulty variant that cuts x with the mask of y.
from_fake_narrow_mask(rect) ==
    LET real_x == i32_and(rect.loc[1], Y_MASK)
        real_y == i32_and(rect.loc[2], Y_MASK)
        workspace_id == i32_or(i32_shl(i32_shr(rect.loc[2], Y_SHIFT), ID_SHIFT),
                               i32_shr(rect.loc[1], X_SHIFT))
        r == from_loc_and_size(<<real_x, real_y>>, rect.size)
    IN IF workspace_id = 0 THEN Absolute(r)
       ELSE Workspace(new_from_u32(i32_as_u32(workspace_id)), r)

\* xwayland.rs:94-104
from_fake(rect) ==
    LET real_x == i32_and(rect.loc[1], X_MASK)
        real_y == i32_and(rect.loc[2], Y_MASK)
        workspace_id == i32_or(i32_shl(i32_shr(rect.loc[2], Y_SHIFT), ID_SHIFT),
                               i32_shr(rect.loc[1], X_SHIFT))
        r == from_loc_and_size(<<real_x, real_y>>, rect.size)
    IN IF workspace_id = 0 THEN Absolute(r)
       ELSE Workspace(new_from_u32(i32_as_u32(workspace_id)), r)

\* The geometries tried: workspace ids at the ends of both bit fields and
\* past them, positions at the ends of both position fields and outside.
WorkspaceIds == {U32Zero, <<0, 1>>, <<0, 255>>, <<0, 256>>, <<255, 65535>>, <<256, 0>>}

Rectangles ==
    {from_loc_and_size(<<x, y>>, size) :
        x \in {0 - 1, 0, X_MASK, X_MASK + 1},
        y \in {0, Y_MASK, Y_MASK + 1},
        size \in {<<1, 1>>, <<MaxDim, MaxDim>>}}

Geometries ==
    {Absolute(r) : r \in Rectangles}
        \cup {Workspace(id, r) : id \in WorkspaceIds, r \in Rectangles}

\* A geometry is given its fake rectangle and read back from it.
RoundTrip(g) ==
    /\ Observe("from_fake", <<Arg(g), <<"ret", into_fake(g)>>,
                              <<"ret", from_fake(into_fake(g))>>>>)
    /\ UNCHANGED <<gfxVars, redraw_state, alive, render_result, output_mode, ipc_output>>
    /\ UNCHANGED seatVars

----------------------------------------------------------------------------
\* IdCounter (utils/id.rs).

\* id.rs:21: 1 << 24
ID_LIMIT == 16777216

Threads == {1, 2}

\* id.rs:12-16, IdCounter::new, with the callers at rest.  value is the
\* AtomicU32; of each thread: where it is in next(), its local v, and how
\* often it has called; returned lists the results of next() in the order of
\* their return, with the thread.
IdCounterNew(value) ==
    [value |-> value, start |-> value,
     pc |-> [t \in Threads |-> "idle"],
     v |-> [t \in Threads |-> 0],
     calls |-> [t \in Threads |-> 0],
     returned |-> <<>>]

\* id.rs:20, 26: self.value.fetch_add(1, Ordering::SeqCst)
fetch_add(value) == [old |-> value, value |-> value + 1]

\* A faulty variant that restarts the counter at zero.
compare_exchange_to_zero(value, current) ==
    IF value = current THEN [ok |-> TRUE, value |-> 0, x |-> current]
    ELSE [ok |-> FALSE, value |-> value, x |-> value]

\* id.rs:22-24: self.value.compare_exchange(v, 1, SeqCst, SeqCst)
compare_exchange(value, current) ==
    IF value = current THEN [ok |-> TRUE, value |-> 1, x |-> current]
    ELSE [ok |-> FALSE, value |-> value, x |-> value]

\* id.rs:21, 29: with v in hand, loop once more or return v
IdContinue(c, t, value, v) ==
    IF v >= ID_LIMIT
    THEN [c EXCEPT !.value = value, !.v[t] = v, !.pc[t] = "cas"]
    ELSE [c EXCEPT !.value = value, !.v[t] = v, !.pc[t] = "idle",
                   !.returned = Append(@, <<t, v>>)]

IdObserve(name, t) ==
    /\ op' = name /\ out' = <<Arg(<<t>>)>> /\ emitted' = <<>>
    /\ hostLocks' = hostLocks /\ hostAxis' = hostAxis /\ backlog' = backlog /\ announced' = announced
    /\ capture' = capture
    /\ UNCHANGED <<gfxVars, loopVars, seatVars>>

\* id.rs:18-20: a thread calls next() and does the first fetch_add
IdNext(t) ==
    /\ counter.pc[t] = "idle"
    /\ counter.calls[t] < MaxCalls
    /\ LET f == fetch_add(counter.value) IN
       counter' = IdContinue([counter EXCEPT !.calls[t] = @ + 1], t, f.value, f.old)
    /\ IdObserve("next", t)

\* id.rs:22-27: the compare_exchange of the loop body
IdCompareExchange(t) ==
    /\ counter.pc[t] = "cas"
    /\ LET r == compare_exchange(counter.value, counter.v[t]) IN
       counter' = IF r.ok
                  THEN [counter EXCEPT !.value = r.value, !.pc[t] = "fetch"]
                  ELSE IdContinue(counter, t, r.value, r.x)
    /\ IdObserve("compare_exchange", t)

\* id.rs:26: the fetch_add after a successful compare_exchange
IdFetchAdd(t) ==
    /\ counter.pc[t] = "fetch"
    /\ LET f == fetch_add(counter.value) IN
       counter' = IdContinue(counter, t, f.value, f.old)
    /\ IdObserve("fetch_add", t)

----------------------------------------------------------------------------
\* The state after WaylandBackend::new (wayland.rs:83-244, graphics.rs:134-147).
InitGraphics ==
    /\ frame_callback_state = "None"
    /\ window_size = <<1, 1>>
    /\ bind_size = None
    /\ damage_tracking \in BOOLEAN
    /\ surface_age = 0
    /\ hostCallbacks = 0
    /\ answered = FALSE

InitLoop ==
    /\ events = <<>>
    /\ redraw_state = "Idle"
    /\ alive = TRUE
    /\ render_result = "None"
    /\ output_mode = <<0, 0>>
    /\ ipc_output = [mode |-> <<0, 0>>, logical |-> <<0, 0>>]

InitObs ==
    /\ op = "new" /\ out = <<>> /\ emitted = <<>> /\ hostLocks = <<>>
    /\ hostAxis = [n \in {1, 2} |-> HostBatchEmpty]

\* Graphics specification: no seat is bound.
Init ==
    /\ InitGraphics
    /\ InitLoop
    /\ InitObs
    /\ backlog = MaxBacklog
    /\ counter = IdCounterNew(1)
    /\ announced = {}
    /\ capture = ImageCopyCaptureNew
    /\ seats = <<>>
    /\ devices = <<>>
    /\ kbdFocus = <<>>
    /\ kbdEntered = <<>>
    /\ locked_pointers = <<>>
    /\ prev_cursor_location = <<0, 0>>
    /\ transform = "Normal"
    /\ relative_pointer_bound = TRUE
    /\ pointer_constraints_bound = TRUE
    /\ seat_version = <<>>
    /\ axis_frame = <<>>

\* Frame pacing: the window keeps its initial size.
Next ==
    \/ RequestFrameCallback
    \/ \E d \in FrameDamageInputs, ok \in BOOLEAN, a \in 0..MaxAge : Submit(d, ok, a)
    \/ \E an \in BOOLEAN, d \in FrameDamageInputs, ok \in BOOLEAN, a \in 0..MaxAge :
          Render(an, d, ok, a)
    \/ HostFrameDone
    \/ RequestClose
    \/ \E r \in BOOLEAN : ConsumeEvent(r)
    \/ QueueRedraw

Spec == Init /\ [][Next]_vars

\* Surface specification: the host resizes the window between binds and
\* submits; the damage rectangles are those of a caller that knows the size.
SurfaceDims == {0, MaxDim - 1, MaxDim}

NextSurface ==
    \/ \E nw \in SurfaceDims, nh \in SurfaceDims : Configure(nw, nh)
    \/ Bind
    \/ BufferAge
    \/ \E d \in DamageInputs, ok \in BOOLEAN, a \in 0..MaxAge : Submit(d, ok, a)
    \/ \E r \in BOOLEAN : ConsumeEvent(r)

SpecSurface == Init /\ [][NextSurface]_vars

----------------------------------------------------------------------------
\* Frame callbacks.

Calls(o) == Count(o, CallRequestFrameCallback)
FrameRequests(o) == Count(o, HostSurfaceFrame)

\* C1: frame-callback single-flight.  Every handler that calls
\* request_frame_callback() (directly, through submit() or through render())
\* leaves the state Requested; it sends exactly one wl_surface.frame request
\* when the state was not Requested before (and that request comes from its
\* first call), and none when it was; the host never holds more than one
\* unanswered callback.
C1_SingleFlight ==
    /\ [](hostCallbacks <= 1)
    /\ [][Calls(out') > 0 =>
            /\ frame_callback_state' = "Requested"
            /\ FrameRequests(out') =
                 (IF frame_callback_state = "Requested" THEN 0 ELSE 1)
            /\ FrameRequests(out') = 1 =>
                 \E i \in 1..(Len(out') - 1) :
                    /\ out'[i] = CallRequestFrameCallback
                    /\ out'[i + 1] = HostSurfaceFrame
                    /\ \A j \in 1..(i - 1) : out'[j] # CallRequestFrameCallback
         ]_vars

\* A handler called request_frame_callback() twice while a request was
\* already outstanding and sent nothing.
C1_Witness ==
    /\ op = "render"
    /\ Calls(out) = 2
    /\ FrameRequests(out) = 0
    /\ frame_callback_state = "Requested"
    /\ hostCallbacks = 1

\* C2: after the host delivered the frame callback the state is no longer
\* Requested, and the next request_frame_callback() call sends exactly one
\* new wl_surface.frame request.
C2_ReceiptRearms ==
    /\ [](answered => frame_callback_state # "Requested")
    /\ [][(answered /\ Calls(out') > 0) => FrameRequests(out') = 1]_vars

\* C3: each receipt of the host's frame callback puts exactly one Frame event
\* on the channel, and a Frame event is only ever emitted by a receipt.
C3_ReceiptEmitsFrame ==
    /\ op = "frame" => emitted = <<EvFrame>>
    /\ Count(emitted, EvFrame) > 0 => op = "frame"

----------------------------------------------------------------------------
\* Seat specification: one seat comes and goes, gains and loses capabilities
\* and keyboard focus, and the compositor moves the cursor.  The registry
\* also announces the removal of a name that was never bound.
InitSeat ==
    /\ InitGraphics
    /\ damage_tracking = TRUE
    /\ InitLoop
    /\ InitObs
    /\ backlog = MaxBacklog
    /\ counter = IdCounterNew(1)
    /\ announced = {}
    /\ capture = ImageCopyCaptureNew
    /\ seats \in {<<>>, <<1>>}
    /\ devices = [n \in SeatNames |-> DefaultDevices]
    /\ kbdFocus = [n \in SeatNames |-> FALSE]
    /\ kbdEntered = [n \in SeatNames |-> FALSE]
    /\ locked_pointers = <<>>
    /\ prev_cursor_location = <<0, 0>>
    /\ transform = "Normal"
    /\ relative_pointer_bound \in BOOLEAN
    /\ pointer_constraints_bound \in BOOLEAN
    /\ seat_version = [n \in SeatNames |-> SEAT_VERSION]
    /\ axis_frame = [n \in SeatNames |-> AxisFrameDefault]

CapabilitySets == SUBSET {"Keyboard", "Pointer", "Touch"}
SeatHintLocations == {<<0, 0>>, <<1, 1>>}
BoundSeatNames == {1}

NextSeat ==
    \/ \E n \in BoundSeatNames : NewGlobal(n)
    \/ \E n \in SeatNames : RemoveGlobal(n)
    \/ \E n \in BoundSeatNames, c \in CapabilitySets : Capabilities(n, c)
    \/ \E n \in BoundSeatNames : KeyboardEnter(n)
    \/ \E n \in BoundSeatNames : KeyboardLeave(n)
    \/ \E l \in SeatHintLocations : SetCursorPositionHint(l)
    \/ ConsumeEvent(FALSE)

SpecSeat == InitSeat /\ [][NextSeat]_vars


----------------------------------------------------------------------------
\* Device lifecycle.

Classes == {"Keyboard", "Pointer", "Touch"}

DeviceOf(d, c) ==
    CASE c = "Keyboard" -> d.keyboard
      [] c = "Pointer" -> d.pointer
      [] c = "Touch" -> d.touch

HostGet(c, id) ==
    CASE c = "Keyboard" -> HostGetKeyboard(id)
      [] c = "Pointer" -> HostGetPointer(id)
      [] c = "Touch" -> HostGetTouch(id)

HostRelease(c, id) ==
    CASE c = "Keyboard" -> HostReleaseKeyboard(id)
      [] c = "Pointer" -> HostReleasePointer(id)
      [] c = "Touch" -> HostReleaseTouch(id)

\* Entries of log o that send a device event of the given kind and class.
DeviceSends(o, kind, c) ==
    {i \in 1..Len(o) : /\ o[i][1] = "send"
                       /\ o[i][2][1] = "Input"
                       /\ o[i][2][2] = kind
                       /\ o[i][2][3][1] = c}

\* Entries of log o that acquire (get) or release a device of class c.
DeviceRequests(o, c, get) ==
    {i \in 1..Len(o) : /\ o[i][1] = "host"
                       /\ \E id \in 1..(MaxIds + 1) :
                             o[i] = (IF get THEN HostGet(c, id) ELSE HostRelease(c, id))}

\* The handler of this step acquired, or released, the device of class c of seat n.
Acquired(n, c) ==
    /\ DeviceOf(devices'[n], c) # None
    /\ DeviceOf(devices'[n], c) # DeviceOf(devices[n], c)
Released(n, c) ==
    /\ DeviceOf(devices[n], c) # None
    /\ DeviceOf(devices'[n], c) # DeviceOf(devices[n], c)

\* C4: device-event pairing.  In every capability announcement and seat
\* removal, for every seat and class: a device is acquired only into an empty
\* record and released only to an empty record (so additions and removals
\* alternate); each acquisition is one get request to the host followed
\* by one DeviceAdded for that handle, each release is one release request
\* and one DeviceRemoved for that handle, and the handler sends no other
\* get or release request and no other DeviceAdded or DeviceRemoved; a class
\* that is announced while held is left as it is.
C4_DevicePairing ==
    [][op' \in {"capabilities", "remove_global", "new_global", "keyboard_enter",
                "keyboard_leave", "set_cursor_position_hint"} =>
        \A c \in Classes :
          /\ \A n \in SeatNames :
               LET pre == DeviceOf(devices[n], c)
                   post == DeviceOf(devices'[n], c)
               IN /\ Acquired(n, c) =>
                       /\ pre = None
                       /\ Count(out', HostGet(c, post[1])) = 1
                       /\ Count(out', Send(EvDeviceAdded(<<c, post[1]>>))) = 1
                  /\ Released(n, c) =>
                       /\ post = None
                       /\ Count(out', HostRelease(c, pre[1])) = 1
                       /\ Count(out', Send(EvDeviceRemoved(<<c, pre[1]>>))) = 1
          /\ Cardinality(DeviceSends(out', "DeviceAdded", c))
               = Cardinality({n \in SeatNames : Acquired(n, c)})
          /\ Cardinality(DeviceRequests(out', c, TRUE))
               = Cardinality({n \in SeatNames : Acquired(n, c)})
          /\ Cardinality(DeviceSends(out', "DeviceRemoved", c))
               = Cardinality({n \in SeatNames : Released(n, c)})
          /\ Cardinality(DeviceRequests(out', c, FALSE))
               = Cardinality({n \in SeatNames : Released(n, c)})
          /\ (op' = "capabilities" /\ c \in out'[1][2][2]
                /\ DeviceOf(devices[out'[1][2][1]], c) # None) =>
                 /\ DeviceOf(devices'[out'[1][2][1]], c) = DeviceOf(devices[out'[1][2][1]], c)
                 /\ DeviceSends(out', "DeviceAdded", c) = {}
                 /\ DeviceRequests(out', c, TRUE) = {}
    ]_vars

\* A seat that holds all three devices is announced the keyboard and the
\* pointer again without touch: nothing is acquired, the touch device goes.
C4_Witness ==
    /\ op = "capabilities"
    /\ out[1] = Arg(<<1, {"Keyboard", "Pointer"}>>)
    /\ devices[1].keyboard # None
    /\ devices[1].pointer # None
    /\ Len(emitted) = 1
    /\ emitted[1][2] = "DeviceRemoved"
    /\ emitted[1][3][1] = "Touch"

\* Number of device records a seat holds among the given classes.
Held(d, cs) == Cardinality({c \in cs : DeviceOf(d, c) # None})

AllDeviceSends(o, kind) ==
    DeviceSends(o, kind, "Keyboard") \cup DeviceSends(o, kind, "Pointer")
      \cup DeviceSends(o, kind, "Touch")

\* C5: a capability announcement emits as many DeviceRemoved events as the
\* seat held device records of the classes the announcement no longer lists;
\* a seat removal emits as many as the seat held records at all, leaves the
\* seat with no keyboard, pointer, relative pointer, lock or touch handle and
\* takes its record off the seat list; the removal of a name that is not in
\* the seat list emits nothing and changes nothing.
C5_RemovalCount ==
    [][/\ op' = "capabilities" =>
            LET n == out'[1][2][1]
                caps == out'[1][2][2]
            IN Cardinality(AllDeviceSends(out', "DeviceRemoved"))
                 = Held(devices[n], Classes \ caps)
       /\ op' = "remove_global" =>
            LET n == out'[1][2][1] IN
            IF n \in Range(seats)
            THEN /\ Cardinality(AllDeviceSends(out', "DeviceRemoved"))
                      = Held(devices[n], Classes)
                 /\ devices'[n] = DefaultDevices
                 /\ n \notin Range(seats')
            ELSE /\ emitted' = <<>>
                 /\ Len(out') = 1
                 /\ UNCHANGED <<seats, devices, locked_pointers>>
    ]_vars

\* A seat holding a keyboard, a pointer and a touch device was removed.
C5_Witness ==
    /\ op = "remove_global"
    /\ out[1] = Arg(<<1>>)
    /\ Len(emitted) = 3
    /\ seats = <<>>

\* Position of entry e in log o (0 if absent).
IndexOf(o, e) ==
    IF \E i \in 1..Len(o) : o[i] = e
    THEN CHOOSE i \in 1..Len(o) : o[i] = e /\ \A j \in 1..(i - 1) : o[j] # e
    ELSE 0

\* C6: a capability announcement without the pointer class, for a seat that
\* holds a pointer, destroys the seat's lock, then its relative pointer, then
\* releases the pointer; afterwards the seat holds none of the three and the
\* backend's lock list does not contain the seat's lock.
C6_PointerTeardown ==
    [][(/\ op' = "capabilities"
        /\ "Pointer" \notin out'[1][2][2]
        /\ devices[out'[1][2][1]].pointer # None) =>
          LET d == devices[out'[1][2][1]]
              d2 == devices'[out'[1][2][1]]
              iLock == IF d.locked_pointer = None THEN 0
                       ELSE IndexOf(out', HostDestroyLock(d.locked_pointer[1]))
              iRel == IF d.relative_pointer = None THEN 0
                      ELSE IndexOf(out', HostDestroyRelativePointer(d.relative_pointer[1]))
              iPtr == IndexOf(out', HostReleasePointer(d.pointer[1]))
          IN /\ d2.pointer = None
             /\ d2.relative_pointer = None
             /\ d2.locked_pointer = None
             /\ iPtr > 0
             /\ d.relative_pointer # None => (0 < iRel /\ iRel < iPtr)
             /\ d.locked_pointer # None =>
                  /\ 0 < iLock
                  /\ iLock < iPtr
                  /\ d.relative_pointer # None => iLock < iRel
                  /\ \A i \in 1..Len(locked_pointers') :
                        locked_pointers'[i] # d.locked_pointer[1]
    ]_vars


----------------------------------------------------------------------------
\* Pointer lock.

\* Entries of log o that ask the host for a pointer lock, or destroy one.
LockRequests(o) ==
    {i \in 1..Len(o) : o[i][1] = "host" /\ o[i][2] = "lock_pointer"}
LockDestroys(o) ==
    {i \in 1..Len(o) : o[i][1] = "host" /\ o[i][2] = "zwp_locked_pointer_v1.destroy"}

\* The focus-driven lock scenario for one step of a host on which the
\* precondition pre holds.
FocusLock(pre) ==
       /\ (/\ op' = "keyboard_enter"
           /\ pre
           /\ devices[out'[1][2][1]].pointer # None
           /\ devices[out'[1][2][1]].relative_pointer # None) =>
            LET n == out'[1][2][1] IN
            /\ ~kbdEntered[n] =>
                 /\ Cardinality(LockRequests(out')) = 1
                 /\ devices'[n].locked_pointer # None
                 /\ devices'[n].locked_pointer[1][2] = devices[n].pointer[1]
                 /\ Count(out', HostLockPointer(devices'[n].locked_pointer[1])) = 1
            /\ kbdEntered[n] =>
                 (devices[n].locked_pointer # None =>
                    /\ LockRequests(out') = {}
                    /\ devices'[n].locked_pointer = devices[n].locked_pointer)
       /\ op' = "keyboard_leave" =>
            LET n == out'[1][2][1] IN
            /\ devices'[n].locked_pointer = None
            /\ devices[n].locked_pointer # None =>
                 /\ Cardinality(LockDestroys(out')) = 1
                 /\ Count(out', HostDestroyLock(devices[n].locked_pointer[1])) = 1

C8_NoLockWithoutRelativePointer ==
    [][/\ LockRequests(out') # {} => op' = "keyboard_enter"
       /\ (/\ op' = "keyboard_enter"
           /\ \/ devices[out'[1][2][1]].pointer = None
              \/ devices[out'[1][2][1]].relative_pointer = None) =>
            /\ LockRequests(out') = {}
            /\ devices'[out'[1][2][1]].locked_pointer = None
            /\ locked_pointers' = locked_pointers
    ]_vars

----------------------------------------------------------------------------
\* Cursor hint specification: both seats are bound at start-up, gain and
\* lose their keyboard and pointer, take and lose the keyboard focus; the
\* host resizes the window, the compositor turns the output and moves the
\* cursor.
InitHint ==
    /\ InitGraphics
    /\ damage_tracking = TRUE
    /\ InitLoop
    /\ InitObs
    /\ backlog = MaxBacklog
    /\ counter = IdCounterNew(1)
    /\ announced = {}
    /\ capture = ImageCopyCaptureNew
    /\ seats = <<1, 2>>
    /\ devices = [n \in SeatNames |-> DefaultDevices]
    /\ kbdFocus = [n \in SeatNames |-> FALSE]
    /\ kbdEntered = [n \in SeatNames |-> FALSE]
    /\ locked_pointers = <<>>
    /\ prev_cursor_location = <<0, 0>>
    /\ transform = "Normal"
    /\ relative_pointer_bound = TRUE
    /\ pointer_constraints_bound = TRUE
    /\ seat_version = [n \in SeatNames |-> SEAT_VERSION]
    /\ axis_frame = [n \in SeatNames |-> AxisFrameDefault]

HintCapabilitySets == {{"Keyboard", "Pointer"}}
HintTransforms == {"Normal", "_90", "Flipped90"}
HintLocations == {<<0, 0>>, <<1, 1>>, <<1, MaxDim - 2>>, <<MaxDim - 1, 1>>}

NextHint ==
    \/ \E n \in SeatNames, c \in HintCapabilitySets : Capabilities(n, c)
    \/ \E n \in SeatNames : KeyboardEnter(n)
    \/ \E n \in SeatNames : KeyboardLeave(n)
    \/ \E nw \in {0, MaxDim}, nh \in {0, MaxDim - 1} : Configure(nw, nh)
    \/ \E t \in HintTransforms : SetTransform(t)
    \/ \E l \in HintLocations : SetCursorPositionHint(l)
    \/ ConsumeEvent(FALSE)

SpecHint == InitHint /\ [][NextHint]_vars

----------------------------------------------------------------------------
\* Cursor position hints.

\* The positions of the hints a handler sent to the host.
HintPositions(o) ==
    {o[i][4] : i \in {j \in 1..Len(o) : o[j][1] = "host" /\ o[j][2] = "set_cursor_position_hint"}}

\* The location a set_cursor_position_hint step was called with.
HintArg(o) == o[1][2][1]

Boundary(loc, ws) ==
    \/ loc[1] = 0 \/ loc[1] = ws[1] - 1
    \/ loc[2] = 0 \/ loc[2] = ws[2] - 1

StrictlyInside(loc, ws) ==
    /\ 0 < loc[1] /\ loc[1] < ws[1] - 1
    /\ 0 < loc[2] /\ loc[2] < ws[2] - 1

\* C9: a set_cursor_position_hint call with a changed position sends every
\* lock of the list the transformed position; when that position has x or y
\* on the window boundary (0, width-1, height-1) every lock of the list is
\* destroyed exactly once, no seat holds a lock afterwards and the list is
\* empty; when it is strictly inside, no lock is destroyed and seats and
\* list keep their locks.
C9_EdgeUnlock ==
    [][(/\ op' = "set_cursor_position_hint"
        /\ HintArg(out') # prev_cursor_location
        /\ locked_pointers # <<>>) =>
          /\ Cardinality(HintPositions(out')) = 1
          /\ \A loc \in HintPositions(out') :
               /\ Boundary(loc, window_size) =>
                    /\ \A l \in Range(locked_pointers) :
                          Count(out', HostDestroyLock(l)) = 1
                    /\ Cardinality(LockDestroys(out')) = Len(locked_pointers)
                    /\ \A n \in Range(seats) : devices'[n].locked_pointer = None
                    /\ locked_pointers' = <<>>
               /\ StrictlyInside(loc, window_size) =>
                    /\ LockDestroys(out') = {}
                    /\ devices' = devices
                    /\ locked_pointers' = locked_pointers
    ]_vars

\* Two seats held a lock and a position on the right edge only destroyed
\* both.
C9_Witness ==
    /\ op = "set_cursor_position_hint"
    /\ Cardinality(LockDestroys(out)) = 2
    /\ locked_pointers = <<>>
    /\ \E loc \in HintPositions(out) :
          /\ loc[1] = window_size[1] - 1
          /\ loc[1] # 0
          /\ 0 < loc[2] /\ loc[2] < window_size[2] - 1

\* C10: a set_cursor_position_hint call with the position of the preceding
\* call sends nothing to the host (no hint, no lock destroyed), puts nothing
\* on the channel and leaves the backend state as it was.
C10_RepeatIsNoOp ==
    [][(/\ op' = "set_cursor_position_hint"
        /\ HintArg(out') = prev_cursor_location) =>
          /\ out' = <<Arg(<<prev_cursor_location>>)>>
          /\ emitted' = <<>>
          /\ UNCHANGED <<gfxVars, loopVars, seatVars>>
    ]_vars

\* A repeated position reached the backend while a seat held a lock and the
\* position was on the boundary: the lock is still there.
C10_Witness ==
    /\ op = "set_cursor_position_hint"
    /\ Len(out) = 1
    /\ locked_pointers # <<>>
    /\ Boundary(hint_location(prev_cursor_location, transform, window_size), window_size)

\* C11 (as stated): whenever a set_cursor_position_hint call finds an active
\* lock whose last hint at the host (none yet for a lock acquired after the
\* cursor last moved) differs from the transformed position of the call,
\* the call sends that lock the hint.
C11_HintVsLastSent ==
    [][op' = "set_cursor_position_hint" =>
         LET loc == hint_location(HintArg(out'), transform, window_size) IN
         \A i \in 1..Len(hostLocks) :
            (/\ hostLocks[i][1] \in Range(locked_pointers)
             /\ hostLocks[i][2] # Some(loc)) =>
               Count(out', HostCursorHint(hostLocks[i][1], loc)) = 1
    ]_vars

\* C11 (amended): the call compares the location it is given with the
\* location of the preceding call; when they differ, every lock of the list
\* is sent the transformed position exactly once, whatever hint it got
\* before, and no other hint is sent.
C11_HintOnMove ==
    [][(/\ op' = "set_cursor_position_hint"
        /\ HintArg(out') # prev_cursor_location) =>
         LET loc == hint_location(HintArg(out'), transform, window_size) IN
         /\ \A l \in Range(locked_pointers) : Count(out', HostCursorHint(l, loc)) = 1
         /\ Cardinality({i \in 1..Len(out') :
                           out'[i][1] = "host" /\ out'[i][2] = "set_cursor_position_hint"})
              = Len(locked_pointers)
    ]_vars

\* Two locks were sent a position strictly inside the window and both are
\* still held, each with that hint at the host.
C11_Witness ==
    /\ op = "set_cursor_position_hint"
    /\ Len(locked_pointers) = 2
    /\ Len(hostLocks) = 2
    /\ \E loc \in HintPositions(out) :
          /\ StrictlyInside(loc, window_size)
          /\ \A i \in 1..2 : hostLocks[i] = <<locked_pointers[i], Some(loc)>>

----------------------------------------------------------------------------
\* Surface size and binding.

\* Entries of log o that resize the native surface.
Resizes(o) == {i \in 1..Len(o) : o[i][1] = "egl" /\ o[i][2] = "resize"}

\* C12: every bind() call resizes the native surface exactly once when the
\* recorded window size differs from the last bound size and not at all
\* otherwise, so the resizes of a run are as many as such bind() calls; a
\* bind() that directly follows a bind() resizes nothing.
C12_ResizeIdempotence ==
    [][/\ op' = "bind" =>
            /\ Cardinality(Resizes(out')) =
                 (IF Some(window_size) # bind_size THEN 1 ELSE 0)
            /\ \A i \in Resizes(out') : out'[i] = EglResize(window_size)
       /\ (op = "bind" /\ op' = "bind") => Resizes(out') = {}
    ]_vars

\* A bind() after a configure and a bind() found the size bound already.
C12_Witness ==
    /\ op = "bind"
    /\ Resizes(out) = {}
    /\ window_size # <<1, 1>>
    /\ bind_size = Some(window_size)

\* C13: a host configure records the new size without resizing the native
\* surface and without changing the last bound size; a resize only happens
\* in bind(), before the renderer is bound; after bind() the last bound size
\* is the recorded window size.
C13_ResizeOnlyInBind ==
    [][/\ op' = "configure" =>
            /\ Resizes(out') = {}
            /\ bind_size' = bind_size
       /\ Resizes(out') # {} =>
            /\ op' \in {"bind", "render"}
            /\ \A i \in Resizes(out') :
                  \E j \in (i + 1)..Len(out') :
                     /\ out'[j] = RendererBind
                     /\ \A k \in 1..(j - 1) : out'[k] # RendererBind
       /\ op' = "bind" =>
            /\ bind_size' = Some(window_size')
            /\ window_size' = window_size
    ]_vars

\* A configure changed the recorded size of a bound surface: the bound size
\* stays behind until the next bind().
C13_Witness ==
    /\ op = "configure"
    /\ bind_size # None
    /\ bind_size # Some(window_size)

----------------------------------------------------------------------------
\* Submission.

\* Position of the first entry of log o that presents the surface (0: none).
SwapIndex(o) ==
    IF \E i \in 1..Len(o) : o[i][1] = "egl" /\ o[i][2] = "swap_buffers"
    THEN CHOOSE i \in 1..Len(o) :
            /\ o[i][1] = "egl" /\ o[i][2] = "swap_buffers"
            /\ \A j \in 1..(i - 1) : ~(o[j][1] = "egl" /\ o[j][2] = "swap_buffers")
    ELSE 0

\* The damage a submit() step was called with, and whether it panicked.
SubmitArg(o) == o[1][2][1]
Panicked(o) == o[Len(o)] = <<"panic">>

\* C14: every submit() that gets past its argument check calls
\* request_frame_callback() once, before it presents and whether or not the
\* swap then succeeds; the state is Requested afterwards, and the call
\* sends a wl_surface.frame request only when the state was not Requested.
C14_SubmitRequestsCallback ==
    [][(op' = "submit" /\ ~Panicked(out')) =>
          /\ Calls(out') = 1
          /\ SwapIndex(out') > 0
          /\ IndexOf(out', CallRequestFrameCallback) < SwapIndex(out')
          /\ frame_callback_state' = "Requested"
          /\ FrameRequests(out') = (IF frame_callback_state = "Requested" THEN 0 ELSE 1)
    ]_vars

\* A submit() whose swap failed, made while a callback was outstanding:
\* no second request, the state stays Requested.
C14_Witness ==
    /\ op = "submit"
    /\ out[Len(out)] = <<"ret", "Err">>
    /\ Calls(out) = 1
    /\ FrameRequests(out) = 0
    /\ frame_callback_state = "Requested"
    /\ hostCallbacks = 1

\* C15: without damage tracking buffer_age() returns 0 whatever the age of
\* the surface, and submit() passes no damage rectangles to the swap
\* whatever damage it is given.
C15_NoDamageTracking ==
    [][~damage_tracking =>
          /\ op' = "buffer_age" => out' = <<<<"ret", 0>>>>
          /\ op' = "submit" =>
               /\ ~Panicked(out')
               /\ out'[SwapIndex(out')] = EglSwap(None)
    ]_vars

\* Damage was submitted without damage tracking and the whole surface was
\* presented.
C15_Witness ==
    /\ op = "submit"
    /\ ~damage_tracking
    /\ SubmitArg(out) # None
    /\ SubmitArg(out)[1] # <<>>
    /\ SwapIndex(out) > 0
    /\ surface_age > 0

Inside(r, H) == 0 <= r.y /\ r.y + r.h <= H

\* C16: with damage tracking and a non-empty damage set, submit() passes
\* the swap one rectangle per damage rectangle, in order, each (x, y, w, h)
\* as (x, H - y - h, w, h) for the height H of the last bound size; flipping
\* the result again gives the rectangle back, and a rectangle inside the
\* bound surface stays inside.
C16_DamageFlip ==
    [][(/\ op' = "submit"
        /\ damage_tracking
        /\ SubmitArg(out') # None
        /\ SubmitArg(out')[1] # <<>>
        /\ ~Panicked(out')) =>
          LET given == SubmitArg(out')[1]
              passed == out'[SwapIndex(out')][3]
              H == bind_size[1][2]
          IN /\ passed # None
             /\ Len(passed[1]) = Len(given)
             /\ \A i \in 1..Len(given) :
                  LET r == given[i]
                      f == passed[1][i]
                  IN /\ f.x = r.x /\ f.w = r.w /\ f.h = r.h
                     /\ f.y = H - r.y - r.h
                     /\ H - f.y - f.h = r.y
                     /\ Inside(r, H) => Inside(f, H)
    ]_vars

\* A rectangle in the second row from the top of a taller surface was
\* passed in a different row, counted from the bottom.
C16_Witness ==
    /\ op = "submit"
    /\ damage_tracking
    /\ SwapIndex(out) > 0
    /\ out[SwapIndex(out)][3] # None
    /\ SubmitArg(out) # None
    /\ \E i \in 1..Len(SubmitArg(out)[1]) :
          /\ Inside(SubmitArg(out)[1][i], bind_size[1][2])
          /\ out[SwapIndex(out)][3][1][i].y # SubmitArg(out)[1][i].y

----------------------------------------------------------------------------
\* Coordinates of input events (input.rs:76-129, 255-271).

\* A faulty variant whose _270 arm rotates like _90.
transform_delta_270_as_90(t, d) ==
    LET tr == hint_transform(t) IN
    CASE tr = "Normal" -> d
      [] tr \in {"_90", "_270"} -> <<-d[2], d[1]>>
      [] tr = "_180" -> <<-d[1], -d[2]>>
      [] tr = "Flipped" -> <<-d[1], d[2]>>
      [] tr = "Flipped90" -> <<-d[2], -d[1]>>
      [] tr = "Flipped180" -> <<d[1], -d[2]>>
      [] tr = "Flipped270" -> <<d[2], d[1]>>

\* input.rs:255-271
transform_delta(t, d) ==
    LET tr == CASE t = "Flipped90" -> "Flipped270"
                [] t = "Flipped270" -> "Flipped90"
                [] OTHER -> t
    IN CASE tr = "Normal" -> d
         [] tr = "_90" -> <<-d[2], d[1]>>
         [] tr = "_180" -> <<-d[1], -d[2]>>
         [] tr = "_270" -> <<d[2], -d[1]>>
         [] tr = "Flipped" -> <<-d[1], d[2]>>
         [] tr = "Flipped90" -> <<-d[2], -d[1]>>
         [] tr = "Flipped180" -> <<d[1], -d[2]>>
         [] tr = "Flipped270" -> <<d[2], d[1]>>

Deltas == (-MaxDelta..MaxDelta) \X (-MaxDelta..MaxDelta)

TransformDelta(t, d) ==
    /\ alive
    /\ Observe("transform_delta", <<Arg(<<t, d>>), <<"ret", transform_delta(t, d)>>>>)
    /\ UNCHANGED <<gfxVars, redraw_state, alive, render_result, output_mode, ipc_output>>
    /\ UNCHANGED seatVars

\* input.rs:283-300: PointerMotionEvent of WaylandPointerRelativeMotionEvent;
\* rm is the host's relative motion, with its delta and delta_unaccel
delta_x(t, rm) == transform_delta(t, rm.delta)[1]

delta_y(t, rm) == transform_delta(t, rm.delta)[2]

delta_x_unaccel(t, rm) == transform_delta(t, rm.delta_unaccel)[1]

delta_y_unaccel(t, rm) == transform_delta(t, rm.delta_unaccel)[1]

UnaccelDeltas == {<<0, 0>>, <<1, 2>>, <<0 - 2, 1>>}

\* The compositor reads the four deltas of a relative motion event.
RelativeMotionDeltas(t, rm) ==
    /\ alive
    /\ Observe("relative_motion_deltas",
               <<Arg(<<t, rm>>),
                 <<"ret", <<delta_x(t, rm), delta_y(t, rm),
                            delta_x_unaccel(t, rm), delta_y_unaccel(t, rm)>>>>>>)
    /\ UNCHANGED <<gfxVars, redraw_state, alive, render_result, output_mode, ipc_output>>
    /\ UNCHANGED seatVars

\* Window sizes with room for a point, and the points of a window.
WindowSizes == (1..MaxDim) \X (1..MaxDim)
PointsIn(sz) == (0..(sz[1] - 1)) \X (0..(sz[2] - 1))

\* input.rs:83-112, RawAbsolutePosition::new(x, y, t, sz).position()
Position(pt, t, sz) ==
    /\ alive
    /\ Observe("position", <<Arg(<<pt, t, sz>>), <<"ret", position(pt, t, sz)>>>>)
    /\ UNCHANGED <<gfxVars, redraw_state, alive, render_result, output_mode, ipc_output>>
    /\ UNCHANGED seatVars

----------------------------------------------------------------------------
\* Buffer negotiation (buffer.rs:258-299).

\* An entry of /dev/dri: the device number of its node and what fails on it,
\* if anything: reading the directory entry, its metadata, opening the node
\* or creating the gbm device on it.
DirEntryStates == {"ok", "no_entry", "no_metadata", "no_open", "no_gbm"}
DevNumbers == {1, 2}
DirEntries == [rdev : DevNumbers, state : DirEntryStates]
RECURSIVE DirsOfLen(_)
DirsOfLen(n) ==
    IF n = 0 THEN {<<>>}
    ELSE {Append(d, e) : d \in DirsOfLen(n - 1), e \in DirEntries}
\* None: /dev/dri itself cannot be read.
Dirs == {None} \cup {Some(d) : d \in UNION {DirsOfLen(n) : n \in 0..MaxDirEntries}}

\* buffer.rs:258-268: Err, Ok(None) or Ok(Some(entry))
RECURSIVE find_in_dir(_, _, _)
find_in_dir(dev, entries, i) ==
    IF i > Len(entries) THEN <<"Ok", None>>
    ELSE LET e == entries[i] IN
         IF e.state \in {"no_entry", "no_metadata"} THEN <<"Err">>
         ELSE IF e.rdev = dev
              THEN IF e.state \in {"no_open", "no_gbm"} THEN <<"Err">>
                   ELSE <<"Ok", Some(i)>>
              ELSE find_in_dir(dev, entries, i + 1)

\* buffer.rs:258-268
find_gbm_device(dev, dir) ==
    IF dir = None THEN <<"Err">> ELSE find_in_dir(dev, dir[1], 1)

LogError(what) == <<"log", "error", what>>

\* The two continuations of the negotiation: rendering into GPU-shared
\* buffers of the opened device, or into a shared-memory pool.
got_gbm_device(entry) == <<<<"path", "GpuShared", entry>>>>
failed_gbm_device == <<<<"path", "SharedMemory">>>>

\* A faulty variant that takes a device that was not found for an opened one.
dmabuf_feedback_not_found_as_opened(dev, dir) ==
    LET r == find_gbm_device(dev, dir) IN
    IF r[1] = "Ok" THEN got_gbm_device(IF r[2] = None THEN 0 ELSE r[2][1])
    ELSE <<LogError("Failed to open gbm main device")>> \o failed_gbm_device

\* buffer.rs:277-299, DmabufHandler::dmabuf_feedback
dmabuf_feedback(dev, dir) ==
    LET r == find_gbm_device(dev, dir) IN
    IF r[1] = "Ok" /\ r[2] # None THEN got_gbm_device(r[2][1])
    ELSE IF r[1] = "Ok"
    THEN <<LogError("Gbm main device not found")>> \o failed_gbm_device
    ELSE <<LogError("Failed to open gbm main device")>> \o failed_gbm_device

DmabufFeedback(dev, dir) ==
    /\ alive
    /\ Observe("dmabuf_feedback", <<Arg(<<dev, dir>>)>> \o dmabuf_feedback(dev, dir))
    /\ UNCHANGED <<gfxVars, redraw_state, alive, render_result, output_mode, ipc_output>>
    /\ UNCHANGED seatVars

NextBuffer == \E dev \in DevNumbers, dir \in Dirs : DmabufFeedback(dev, dir)

SpecBuffer == Init /\ [][NextBuffer]_vars

----------------------------------------------------------------------------
\* Pointer specification: one seat whose wl_seat global has an old or a new
\* version gains and loses its devices and the host sends pointer events.
InitPointer ==
    /\ InitGraphics
    /\ damage_tracking = TRUE
    /\ InitLoop
    /\ InitObs
    /\ backlog = MaxBacklog
    /\ counter = IdCounterNew(1)
    /\ announced = {}
    /\ capture = ImageCopyCaptureNew
    /\ seats = <<1>>
    /\ devices = [n \in SeatNames |-> DefaultDevices]
    /\ kbdFocus = [n \in SeatNames |-> FALSE]
    /\ kbdEntered = [n \in SeatNames |-> FALSE]
    /\ locked_pointers = <<>>
    /\ prev_cursor_location = <<0, 0>>
    /\ transform = "Normal"
    /\ relative_pointer_bound = TRUE
    /\ pointer_constraints_bound = TRUE
    /\ seat_version \in [SeatNames -> {AxisFrameVersion - 1, AxisFrameVersion}]
    /\ seat_version[2] = AxisFrameVersion
    /\ axis_frame = [n \in SeatNames |-> AxisFrameDefault]

PointerCapabilitySets == {{"Pointer"}, {}}
ScrollTimes == {U32Zero, <<0, 1>>}
ScrollEvents ==
    {<<"Enter">>, <<"Leave">>, <<"Frame">>, <<"Motion", <<0, 1>>>>, <<"Button", <<0, 1>>>>,
     <<"Axis", <<0, 1>>, "Horizontal", -1>>, <<"AxisSource", "Finger">>,
     <<"AxisDiscrete", "Vertical", 1>>}
    \cup {<<"Axis", t, "Vertical", v>> : t \in ScrollTimes, v \in ScrollValues}
    \cup {<<"AxisStop", t, "Vertical">> : t \in ScrollTimes}

NextPointer ==
    \/ \E c \in PointerCapabilitySets : Capabilities(1, c)
    \/ \E ev \in ScrollEvents : PointerEvent(1, ev)
    \/ ConsumeEvent(FALSE)

SpecPointer == InitPointer /\ [][NextPointer]_vars

----------------------------------------------------------------------------
\* Event-time specification: the devices of one seat send timed events and
\* the main loop asks every event it receives for its time.
TimeCapabilitySets == {{"Keyboard", "Pointer", "Touch"}}
TimedPointerEvents ==
    {<<"Frame">>}
    \cup {<<"Motion", t>> : t \in HostTimes}
    \cup {<<"Button", t>> : t \in HostTimes}
    \cup {<<"Axis", t, "Vertical", MaxScroll>> : t \in HostTimes}

NextTime ==
    \/ \E c \in TimeCapabilitySets : Capabilities(1, c)
    \/ \E ev \in TimedPointerEvents : PointerEvent(1, ev)
    \/ \E t \in HostTimes : KeyboardKey(1, t)
    \/ \E u \in HostUtimes : RelativePointerMotion(1, u)
    \/ \E ev \in TouchEvents : TouchEvent(1, ev)
    \/ ConsumeEvent(FALSE)
    \/ EventTime

SpecTime == InitPointer /\ [][NextTime]_vars

----------------------------------------------------------------------------
\* Scroll events.

\* The seat and the wl_pointer event of the pointer_event step logged in o.
PointerArgSeat(o) == o[1][2][1]
PointerArgEvent(o) == o[1][2][2]
AxisSubEvents == {"Axis", "AxisSource", "AxisStop", "AxisDiscrete"}
PointerAxisSent(evs) == SelectSeq(evs, LAMBDA e : e[1] = "Input" /\ e[2] = "PointerAxis")

\* C17: on a pointer of version 5 or newer the axis sub-events send no event;
\* every wl_pointer.frame sends exactly one PointerAxis whose absolute amount
\* is, per axis, the sum of the Axis values the host sent since the previous
\* frame, and leaves the accumulator equal to AxisFrame::default().
C17_ScrollBatching ==
    [][(op' = "pointer_event" /\ seat_version[PointerArgSeat(out')] >= AxisFrameVersion) =>
         LET n == PointerArgSeat(out')
             ev == PointerArgEvent(out')
         IN /\ ev[1] \in AxisSubEvents => emitted' = <<>>
            /\ ev[1] = "Frame" =>
                 /\ Len(emitted') = 1
                 /\ Len(PointerAxisSent(emitted')) = 1
                 /\ emitted'[1][4].vertical.absolute = hostAxis[n].vertical
                 /\ emitted'[1][4].horizontal.absolute = hostAxis[n].horizontal
                 /\ axis_frame'[n] = AxisFrameDefault
                 /\ axis_frame'[n].time = U32Zero
                 /\ axis_frame'[n].source = "Wheel"
                 /\ \A a \in Axes : /\ axis_frame'[n][AxisField(a)].absolute = 0
                                    /\ axis_frame'[n][AxisField(a)].v120 = 0]_vars

\* A frame closed a batch of two Axis events on the same axis, and the event
\* carries their sum.
C17_Witness ==
    /\ op = "pointer_event"
    /\ seat_version[1] >= AxisFrameVersion
    /\ PointerArgEvent(out) = <<"Frame">>
    /\ Len(emitted) = 1
    /\ emitted[1][4].vertical.absolute = MaxScroll - 1
    /\ emitted[1][4].horizontal.absolute = -1
    /\ axis_frame[1] = AxisFrameDefault

\* C18: the PointerAxis of a frame carries the time of the first sub-event of
\* the batch that had one (Axis or AxisStop), whatever times the later
\* sub-events carry.
C18_FirstTimestamp ==
    [][(/\ op' = "pointer_event"
        /\ seat_version[PointerArgSeat(out')] >= AxisFrameVersion
        /\ PointerArgEvent(out') = <<"Frame">>
        /\ hostAxis[PointerArgSeat(out')].first # <<>>) =>
         /\ Len(emitted') = 1
         /\ emitted'[1][4].time = hostAxis[PointerArgSeat(out')].first[1]]_vars

\* C19: on a pointer older than version 5 every Axis event sends exactly one
\* PointerAxis, right away, carrying that event's amount on its axis, nothing
\* on the other one, and that event's time; the accumulator is empty after
\* every event, and the other pointer events send no PointerAxis.
C19_UnbatchedAxis ==
    [][(op' = "pointer_event" /\ seat_version[PointerArgSeat(out')] < AxisFrameVersion) =>
         LET n == PointerArgSeat(out')
             ev == PointerArgEvent(out')
         IN /\ axis_frame'[n] = AxisFrameDefault
            /\ ev[1] # "Axis" => PointerAxisSent(emitted') = <<>>
            /\ ev[1] = "Axis" =>
                 /\ Len(emitted') = 1
                 /\ Len(PointerAxisSent(emitted')) = 1
                 /\ emitted'[1][4] =
                      [AxisFrameDefault EXCEPT !.time = ev[2],
                                               ![AxisField(ev[3])].absolute = ev[4]]]_vars

----------------------------------------------------------------------------
\* Event times.

\* Quotient and remainder of a u64 by 1000, by long division over its limbs.
DivMod1000(u) ==
    LET c1 == u[1]
        c2 == (c1 % 1000) * Limb + u[2]
        c3 == (c2 % 1000) * Limb + u[3]
        c4 == (c3 % 1000) * Limb + u[4]
    IN [q |-> <<c1 \div 1000, c2 \div 1000, c3 \div 1000, c4 \div 1000>>, r |-> c4 % 1000]

\* The event asked for its time in the time step logged in o, and the answer.
TimeArg(o) == o[1][2][1]
TimeRet(o) == o[2][2]
HostArg(o) == o[1][2][2]

\* C20: the keyboard-key, pointer-button, absolute-motion and touch events
\* carry the 32-bit millisecond time the host sent, and these and the axis
\* event report as time() a 64-bit value that is exactly 1000 times their
\* millisecond time (its quotient by 1000 is the zero-extended time, the
\* remainder 0); a relative motion event reports the 64-bit utime the host
\* sent, unscaled.
C20_TimeConversion ==
    [][/\ op' = "time" =>
            LET ev == TimeArg(out') IN
            /\ ev[2] \in MillisEvents =>
                 DivMod1000(TimeRet(out')) = [q |-> <<0, 0, ev[4][1], ev[4][2]>>, r |-> 0]
            /\ ev[2] = "PointerAxis" =>
                 DivMod1000(TimeRet(out')) =
                    [q |-> <<0, 0, ev[4].time[1], ev[4].time[2]>>, r |-> 0]
            /\ ev[2] = "PointerMotion" => TimeRet(out') = ev[4].utime
       /\ op' = "keyboard_key" =>
            /\ Len(emitted') = 1 /\ emitted'[1][2] = "Keyboard"
            /\ emitted'[1][4] = HostArg(out')
       /\ (op' = "pointer_event" /\ HostArg(out')[1] \in {"Motion", "Button"}) =>
            /\ emitted'[1][2] \in {"PointerMotionAbsolute", "PointerButton"}
            /\ emitted'[1][4] = HostArg(out')[2]
       /\ (op' = "touch_event" /\ HostArg(out')[1] \in {"Down", "Up", "Motion"}) =>
            /\ Len(emitted') = 1 /\ emitted'[1][2] \in {"TouchDown", "TouchUp", "TouchMotion"}
            /\ emitted'[1][4] = HostArg(out')[2]
       /\ op' = "relative_pointer_motion" =>
            /\ Len(emitted') = 1 /\ emitted'[1][2] = "PointerMotion"
            /\ emitted'[1][4].utime = HostArg(out')]_vars

\* The key event of the largest 32-bit time, 4294967295 ms, was asked for its
\* time and answered 4294967295000 us (0x3E7 FFFF FC18), beyond 32 bits.
C20_Witness ==
    /\ op = "time"
    /\ TimeArg(out)[2] = "Keyboard"
    /\ TimeArg(out)[4] = <<65535, 65535>>
    /\ TimeRet(out) = <<0, 999, 65535, 64536>>

----------------------------------------------------------------------------
\* Coordinate specification: the consumer of the input events asks for
\* rotated deltas and for positions.
NextCoords ==
    \/ \E t \in Transforms, d \in Deltas : TransformDelta(t, d)
    \/ \E t \in Transforms, sz \in WindowSizes : \E pt \in PointsIn(sz) : Position(pt, t, sz)

SpecCoords == Init /\ [][NextCoords]_vars

\* The argument tuple and the result of the function call logged in o.
CallArg(o) == o[1][2]
CallRet(o) == o[2][2]
IsPermutedNegated(r, d) ==
    \E sx \in {-1, 1}, sy \in {-1, 1} :
        \/ r = <<sx * d[1], sy * d[2]>>
        \/ r = <<sx * d[2], sy * d[1]>>

\* C21: transform_delta leaves a delta unchanged for the Normal transform;
\* for every transform T, rotating its result again for the inverse of T
\* gives the delta back, and the result is the two components of the delta,
\* permuted and negated.
C21_DeltaRoundTrip ==
    [][op' = "transform_delta" =>
         LET t == CallArg(out')[1]
             d == CallArg(out')[2]
         IN /\ t = "Normal" => CallRet(out') = d
            /\ transform_delta(invert(t), CallRet(out')) = d
            /\ IsPermutedNegated(CallRet(out'), d)]_vars

\* A quarter turn was applied to a delta with two different components.
C21_Witness ==
    /\ op = "transform_delta"
    /\ CallArg(out) = <<"_270", <<1, MaxDelta>>>>
    /\ CallRet(out) = <<MaxDelta, -1>>

\* C22: with the Normal transform the position of a point inside the window
\* is the point itself, for every window size.
C22_IdentityPosition ==
    [][op' = "position" =>
         LET pt == CallArg(out')[1]
             t == CallArg(out')[2]
             sz == CallArg(out')[3]
         IN (t = "Normal" /\ pt \in PointsIn(sz)) => CallRet(out') = pt]_vars

\* The far corner of the largest window keeps its coordinates.
C22_Witness ==
    /\ op = "position"
    /\ CallArg(out) = <<<<MaxDim - 1, MaxDim - 2>>, "Normal", <<MaxDim, MaxDim>>>>
    /\ CallRet(out) = <<MaxDim - 1, MaxDim - 2>>

----------------------------------------------------------------------------
\* Output size.

\* C23: whenever no Resize event waits on the channel, the mode of the output
\* is the recorded window size, the mode of the IPC entry is that size clamped
\* to 0..65535 and its logical size is that size.
C23_OutputInSync ==
    Count(events, EvResize) = 0 =>
        /\ output_mode = window_size
        /\ ipc_output.mode = <<ClampU16(window_size[1]), ClampU16(window_size[2])>>
        /\ ipc_output.logical = window_size

----------------------------------------------------------------------------
\* The event channel.

\* Channel specification: the event loop may run one more handler than
\* elsewhere before the main loop receives, so that events of different
\* handlers wait together.
InitChannel ==
    /\ InitGraphics
    /\ damage_tracking = TRUE
    /\ InitLoop
    /\ InitObs
    /\ backlog = MaxBacklog + 1
    /\ counter = IdCounterNew(1)
    /\ announced = {}
    /\ capture = ImageCopyCaptureNew
    /\ seats = <<1>>
    /\ devices = [n \in SeatNames |-> DefaultDevices]
    /\ kbdFocus = [n \in SeatNames |-> FALSE]
    /\ kbdEntered = [n \in SeatNames |-> FALSE]
    /\ locked_pointers = <<>>
    /\ prev_cursor_location = <<0, 0>>
    /\ transform = "Normal"
    /\ relative_pointer_bound = TRUE
    /\ pointer_constraints_bound = TRUE
    /\ seat_version = [n \in SeatNames |-> SEAT_VERSION]
    /\ axis_frame = [n \in SeatNames |-> AxisFrameDefault]

ChannelCapabilitySets == {{"Keyboard", "Pointer"}, {}}

NextChannel ==
    \/ \E c \in ChannelCapabilitySets : Capabilities(1, c)
    \/ \E nw \in {0, MaxDim}, nh \in {0, MaxDim - 1} : Configure(nw, nh)
    \/ RequestClose
    \/ ConsumeEvent(FALSE)

SpecChannel == InitChannel /\ [][NextChannel]_vars

----------------------------------------------------------------------------
\* Released handles.

\* Entry j of log o releases the device of class c with handle id to the host.
ReleasesAt(o, j, c, id) ==
    /\ o[j][1] = "host"
    /\ o[j][2] = HostRelease(c, id)[2]
    /\ o[j][3] = id

\* C25: in a capability announcement and in a seat removal, every device
\* event the handler sends is about a handle that no seat holds in its record
\* any more if it is a removal, and about a handle the handler has not
\* released to the host before sending the event.
C25_NoReleasedHandle ==
    [][op' \in {"capabilities", "remove_global"} =>
         \A c \in Classes :
            \A i \in DeviceSends(out', "DeviceRemoved", c) \cup DeviceSends(out', "DeviceAdded", c) :
               LET id == out'[i][2][3][2] IN
               /\ out'[i][2][2] = "DeviceRemoved" =>
                     \A n \in SeatNames : DeviceOf(devices'[n], c) # Some(id)
               /\ \A j \in 1..(i - 1) : ~ReleasesAt(out', j, c, id)]_vars

----------------------------------------------------------------------------
\* Render result.

\* The damage the damage tracker reported in the render step logged in o.
ReportedDamage(o) ==
    LET i == CHOOSE i \in 1..Len(o) : o[i][1] = "call" /\ o[i][2] = "render_output"
    IN o[i][4]
Swaps(o) == {i \in 1..Len(o) : o[i][1] = "egl" /\ o[i][2] = "swap_buffers"}

----------------------------------------------------------------------------
\* Buffer negotiation.

\* The main device of the feedback is an entry of the directory whose node
\* opens and takes a gbm device.
Openable(dev, dir) ==
    /\ dir # None
    /\ \E i \in 1..Len(dir[1]) : dir[1][i].rdev = dev /\ dir[1][i].state = "ok"
PathsTaken(o) == {o[i][2] : i \in {j \in 1..Len(o) : o[j][1] = "path"}}
ErrorsLogged(o) == {i \in 1..Len(o) : o[i][1] = "log" /\ o[i][2] = "error"}

\* C27: a feedback whose main device is not found among the entries of
\* /dev/dri, or cannot be opened, logs an error and takes the shared-memory
\* path, and the backend keeps running; the GPU-shared path is taken only for
\* a device that was found and opened, and exactly one path is taken.
C27_NegotiationDegrades ==
    [][op' = "dmabuf_feedback" =>
         LET dev == CallArg(out')[1]
             dir == CallArg(out')[2]
         IN /\ alive'
            /\ out'[Len(out')] # <<"panic">>
            /\ Cardinality(PathsTaken(out')) = 1
            /\ ~Openable(dev, dir) =>
                  /\ PathsTaken(out') = {"SharedMemory"}
                  /\ Cardinality(ErrorsLogged(out')) = 1
            /\ "GpuShared" \in PathsTaken(out') =>
                  /\ Openable(dev, dir)
                  /\ dir[1][out'[Len(out')][3]].rdev = dev
                  /\ dir[1][out'[Len(out')][3]].state = "ok"
                  /\ ErrorsLogged(out') = {}]_vars

\* The directory holds another device and the main device, whose node does
\* not open: the error is logged and the shared-memory path is taken.
C27_Witness ==
    /\ op = "dmabuf_feedback"
    /\ CallArg(out) = <<1, Some(<<[rdev |-> 2, state |-> "ok"], [rdev |-> 1, state |-> "no_open"]>>)>>
    /\ PathsTaken(out) = {"SharedMemory"}
    /\ Cardinality(ErrorsLogged(out)) = 1
    /\ alive

----------------------------------------------------------------------------
\* IdCounter.

\* IdCounter specification: two threads call next() on a counter that is
\* new, or has handed out all ids but the last one or two.  A thread inside
\* next() keeps running.
InitId ==
    /\ InitGraphics
    /\ InitLoop
    /\ InitObs
    /\ backlog = MaxBacklog
    /\ counter \in {IdCounterNew(v) : v \in {1, ID_LIMIT - 2, ID_LIMIT - 1}}
    /\ announced = {}
    /\ capture = ImageCopyCaptureNew
    /\ seats = <<>>
    /\ devices = <<>>
    /\ kbdFocus = <<>>
    /\ kbdEntered = <<>>
    /\ locked_pointers = <<>>
    /\ prev_cursor_location = <<0, 0>>
    /\ transform = "Normal"
    /\ relative_pointer_bound = TRUE
    /\ pointer_constraints_bound = TRUE
    /\ seat_version = <<>>
    /\ axis_frame = <<>>

NextId ==
    \/ \E t \in Threads : IdNext(t)
    \/ \E t \in Threads : IdCompareExchange(t)
    \/ \E t \in Threads : IdFetchAdd(t)

SpecId ==
    /\ InitId
    /\ [][NextId]_vars
    /\ \A t \in Threads : WF_vars(IdCompareExchange(t) \/ IdFetchAdd(t))

\* C28: the ids returned by next() are pairwise different (the calls of a run
\* are far fewer than the 2^24 - 1 ids of one round of the counter).
C28_UniqueIds ==
    \A i, j \in 1..Len(counter.returned) :
        i # j => counter.returned[i][2] # counter.returned[j][2]

SuccId(x) == IF x = ID_LIMIT - 1 THEN 1 ELSE x + 1

\* C29: every id returned is in 1 .. 2^24 - 1; as long as a single thread
\* has called, the ids are consecutive, 1 following 2^24 - 1; and a thread
\* that is inside next() returns from it.
C29_IdRange ==
    /\ [](/\ \A i \in 1..Len(counter.returned) :
               counter.returned[i][2] \in 1..(ID_LIMIT - 1)
          /\ (\A t \in Threads \ {1} : counter.calls[t] = 0) =>
               \A i \in 1..Len(counter.returned) :
                   counter.returned[i][2] =
                      (IF i = 1 THEN counter.start ELSE SuccId(counter.returned[i - 1][2])))
    /\ \A t \in Threads : (counter.pc[t] # "idle") ~> (counter.pc[t] = "idle")

\* A single thread got the last id of a round and then, through the loop, 1.
C29_Witness ==
    /\ counter.calls[2] = 0
    /\ counter.pc[1] = "idle"
    /\ counter.returned = <<<<1, ID_LIMIT - 1>>, <<1, 1>>>>
    /\ op = "fetch_add"

----------------------------------------------------------------------------
\* RichGeometry.

NextGeometry == \E g \in Geometries : RoundTrip(g)

SpecGeometry == Init /\ [][NextGeometry]_vars

\* The geometries the encoding is made for.
Encodable(g) ==
    /\ g.rect.loc[1] >= 0 /\ g.rect.loc[1] <= X_MASK
    /\ g.rect.loc[2] >= 0 /\ g.rect.loc[2] <= Y_MASK
    /\ g.kind = "Workspace" => g.id # U32Zero /\ g.id[1] <= ID_LOW_MASK

\* C30: an encodable geometry is read back unchanged from its fake rectangle,
\* whose x and y are not negative and whose size is that of the geometry.
C30_RichGeometryRoundTrip ==
    op = "from_fake" =>
        LET g == CallArg(out)
            fake == out[2][2]
            back == out[3][2]
        IN Encodable(g) =>
              /\ back = g
              /\ fake.loc[1] >= 0 /\ fake.loc[2] >= 0
              /\ fake.size = g.rect.size

\* The largest workspace id with the largest position fills all 31 bits of x
\* and of y, and is read back.
C30_Witness ==
    /\ op = "from_fake"
    /\ CallArg(out) = Workspace(<<255, 65535>>, from_loc_and_size(<<X_MASK, Y_MASK>>, <<MaxDim, MaxDim>>))
    /\ out[2][2].loc = <<2147483647, 2147483647>>
    /\ out[3][2] = CallArg(out)

\* Outside the encodable geometries the fake rectangle does not give the
\* geometry back.
C30_OutsideWitness ==
    /\ op = "from_fake"
    /\ ~Encodable(CallArg(out))
    /\ out[3][2] # CallArg(out)

\* C31: a workspace geometry with a non-zero 24-bit id is read back from its
\* fake rectangle as a geometry of the same workspace, wherever the window is.
C31_WorkspaceKept ==
    op = "from_fake" =>
        LET g == CallArg(out)
            back == out[3][2]
        IN (g.kind = "Workspace" /\ g.id # U32Zero /\ g.id[1] <= ID_LOW_MASK) =>
              back.kind = "Workspace" /\ back.id = g.id

----------------------------------------------------------------------------
\* Configure.

\* C32: a configure whose size, with the current dimension for one left
\* unspecified, differs from the recorded window size records it and then
\* sends one Resize event; a configure of the recorded size sends nothing and
\* changes nothing.
C32_ConfigureResize ==
    [][op' = "configure" =>
         LET nw == out'[1][2][1]
             nh == out'[1][2][2]
             want == <<IF nw = 0 THEN window_size[1] ELSE nw,
                       IF nh = 0 THEN window_size[2] ELSE nh>>
         IN IF want # window_size
            THEN /\ window_size' = want
                 /\ Len(out') = 3
                 /\ out'[2] = <<"call", "set_window_size", want>>
                 /\ out'[3] = <<"send", EvResize>>
                 /\ events' = Append(events, EvResize)
            ELSE /\ Len(out') = 1
                 /\ events' = events
                 /\ UNCHANGED <<gfxVars, redraw_state, alive, render_result,
                                output_mode, ipc_output, seatVars>>]_vars

\* The host gave a new width and left the height unspecified: the width is
\* recorded with the old height, and Resize is sent.
C32_Witness ==
    /\ op = "configure"
    /\ Len(out) = 3
    /\ CallArg(out)[1] # 0 /\ CallArg(out)[2] = 0
    /\ window_size = <<CallArg(out)[1], 1>>
    /\ Count(events, EvResize) = 1

----------------------------------------------------------------------------
\* Locks.

\* The lock handles in the seats' device records.
HeldLocks ==
    {devices[n].locked_pointer[1] :
        n \in {m \in DOMAIN devices : devices[m].locked_pointer # None}}

\* C33: the backend's list of locked pointers holds the lock handles of the
\* seats' device records, each once, and nothing else.
C33_LockListMatchesSeats ==
    /\ \A i, j \in 1..Len(locked_pointers) :
           (locked_pointers[i] = locked_pointers[j]) => i = j
    /\ {locked_pointers[i] : i \in 1..Len(locked_pointers)} = HeldLocks

\* A seat that lost its pointer kept its lock, in its record and in the list;
\* the removal of the seat then destroyed the lock and emptied the list.
C33_Witness ==
    /\ op = "remove_global"
    /\ \E i \in 1..Len(out) : out[i][1] = "host" /\ out[i][2] = "zwp_locked_pointer_v1.destroy"
    /\ \A i \in 1..Len(out) : out[i][1] = "host" => out[i][2] # "wl_pointer.release"
    /\ locked_pointers = <<>>
    /\ HeldLocks = {}

\* C34: a seat that holds a lock holds the pointer the lock was requested
\* for, and that pointer's relative pointer.
C34_LockHasItsPointer ==
    \A n \in DOMAIN devices :
        devices[n].locked_pointer # None =>
            /\ devices[n].pointer # None
            /\ devices[n].pointer[1] = devices[n].locked_pointer[1][2]
            /\ devices[n].relative_pointer # None

----------------------------------------------------------------------------
\* Device events.

\* Device specification: one seat gains and loses its devices and goes and
\* comes back, its devices deliver events, and the main loop lags behind the
\* handlers by some events.
DeviceCapabilitySets == {{"Keyboard", "Pointer", "Touch"}, {"Keyboard"}, {}}

NextDevices ==
    \/ \E c \in DeviceCapabilitySets : Capabilities(1, c)
    \/ RemoveGlobal(1)
    \/ NewGlobal(1)
    \/ KeyboardEnter(1)
    \/ KeyboardKey(1, U32Zero)
    \/ PointerEvent(1, <<"Button", U32Zero>>)
    \/ RelativePointerMotion(1, <<0, 0, 0, 0>>)
    \/ TouchEvent(1, <<"Frame">>)
    \/ ConsumeEvent(FALSE)

SpecDevices == InitChannel /\ [][NextDevices]_vars

\* C35: the main loop receives an event of a device only between the
\* DeviceAdded and the DeviceRemoved of that device.
C35_EventsWithinLifetime ==
    [][op' = "consume" =>
         LET e == out'[1] IN
         e[1] = "Input" =>
            IF e[2] = "DeviceAdded" THEN e[3] \notin announced
            ELSE e[3] \in announced]_vars

\* The main loop receives a key event of a keyboard that the seat has
\* released since; the DeviceRemoved of the keyboard is still waiting.
C35_Witness ==
    /\ op = "consume"
    /\ out[1][1] = "Input" /\ out[1][2] = "Keyboard"
    /\ devices[1].keyboard = None
    /\ events # <<>> /\ Head(events) = EvDeviceRemoved(out[1][3])
    /\ out[1][3] \in announced

----------------------------------------------------------------------------
\* Relative motion.

NextRelative ==
    \E t \in Transforms, d \in Deltas, du \in UnaccelDeltas :
        RelativeMotionDeltas(t, [delta |-> d, delta_unaccel |-> du])

SpecRelative == Init /\ [][NextRelative]_vars

\* C36: the unaccelerated delta of a relative motion event is the host's
\* unaccelerated delta under transform_delta, as the accelerated delta is the
\* host's delta under transform_delta.
C36_UnaccelRotated ==
    op = "relative_motion_deltas" =>
        LET t == CallArg(out)[1]
            rm == CallArg(out)[2]
            r == CallRet(out)
        IN /\ <<r[1], r[2]>> = transform_delta(t, rm.delta)
           /\ <<r[3], r[4]>> = transform_delta(t, rm.delta_unaccel)

----------------------------------------------------------------------------
\* Image copy capture.

NextCapture ==
    \/ \E valid \in BOOLEAN : CreateSession(valid)
    \/ CreateFrame
    \/ \E id \in 1..MaxFrames : DestroyFrame(id)
    \/ \E id \in 1..MaxFrames, b \in {"fits", "unfit"} : AttachBuffer(id, b)
    \/ \E id \in 1..MaxFrames : Capture(id)
    \/ DestroySession
    \/ Success
    \/ Fail("Unknown")
    \/ Stop

SpecCapture == Init /\ [][NextCapture]_vars

\* The frame resources the client created as frames of the session and has not
\* destroyed.
LiveFrames(c) == {id \in DOMAIN c.resources : c.resources[id].state = "normal"}

\* C37: a capture session holds at most one frame at any time: create_frame
\* while the session still has a frame posts duplicate_frame and leaves that
\* frame unchanged, and a new frame is created only when the client has
\* destroyed the session's previous frame.
C37_OneFramePerSession ==
    [][op' = "create_frame" /\ capture.session[1].listed =>
          IF capture.session[1].frame # None
          THEN /\ ResError(<<"session">>, "DuplicateFrame") \in Range(out')
               /\ capture'.session[1].frame = capture.session[1].frame
               /\ LiveFrames(capture') = LiveFrames(capture)
          ELSE LiveFrames(capture) = {}]_vars

\* A create_frame that was answered with duplicate_frame.
C37_DuplicateReached ==
    /\ op = "create_frame"
    /\ ResError(<<"session">>, "DuplicateFrame") \in Range(out)
    /\ capture.session[1].frame # None

\* The terminal events (ready, failed) that reached the client for a frame.
Terminals(c, id) ==
    SelectSeq(c.resources[id].sent,
              LAMBDA x : x[1] = "event" /\ x[3] \in {"ready", "failed"})

\* What a step delivered to the client through a frame.
SentBy(c, d, id) ==
    SubSeq(d.resources[id].sent, Len(c.resources[id].sent) + 1, Len(d.resources[id].sent))

\* C38: whatever the order of attach_buffer, capture, success, fail and stop,
\* the client is sent at most one terminal event (ready or failed) per frame,
\* the recorded result of a frame is never overwritten once set, and a
\* repeated capture request only posts already_captured and sends no event.
C38_OneTerminalEvent ==
    [][/\ \A id \in DOMAIN capture'.resources : Len(Terminals(capture', id)) <= 1
       /\ \A id \in DOMAIN capture.resources :
            SessionOfFrame(capture, id) /\ SessionOfFrame(capture', id)
            /\ capture.session[1].frame[1].result # None
            => capture'.session[1].frame[1].result = capture.session[1].frame[1].result
       /\ \A id \in DOMAIN capture.resources :
            op' = "capture" /\ out'[1] = Arg(<<id>>)
            /\ capture.resources[id].state = "normal" /\ capture.resources[id].captures >= 1
            => SentBy(capture, capture', id) = <<ResError(FrameRes(id), "AlreadyCaptured")>>
      ]_vars

\* The session of the frame is stopped: the frame is inert, no session holds
\* it any more, or the session that holds it was stopped.
OfStoppedSession(c, id) ==
    \/ c.resources[id].state = "inert"
    \/ ~SessionOfFrame(c, id)
    \/ c.session[1].stopped

\* C39: a capture request on a frame whose session is stopped (a frame created
\* after the stop and a frame whose session no longer exists included) sends
\* the client failed(stopped) exactly once, and the frame is never rendered.
C39_StoppedCaptureFails ==
    [][\A id \in DOMAIN capture.resources :
          op' = "capture" /\ out'[1] = Arg(<<id>>) /\ OfStoppedSession(capture, id)
          => /\ SentBy(capture, capture', id)
                    = <<ResEvent(FrameRes(id), "failed", "Stopped")>>
             /\ SessionOfFrame(capture', id)
                    => ~should_render(capture'.session[1].frame[1])]_vars

====
